---- MODULE Spec2Model ----
(***************************************************************************)
(* A model of LIMS2DB: the document merger (LIMS2DB/utils.py), the         *)
(* document differ (LIMS2DB/diff.py), the workset upload paths             *)
(* (LIMS2DB/parallel.py, scripts/workset_upload_sql.py) and the sample     *)
(* reconstruction of LIMS2DB/objectsDB/objectsDB.py (process               *)
(* classification, top-level aggregate-QC reduction, run identifiers).     *)
(*                                                                         *)
(* Each component has a specification of its own (SpecMerge, SpecUpload,   *)
(* SpecDiff, SpecClassify, SpecTopLevel, SpecRunId); the variables of the  *)
(* other components stay at their idle value under it.                     *)
(***************************************************************************)
EXTENDS Integers, Sequences, FiniteSets, TLC

VARIABLES
    \* ---- utils.merge
    m_pc,       \* "start" | "merged" | "merged2"
    m_a,        \* d1 as it was before the first merge call
    m_d1,       \* the dictionary object d1 (mutated in place by merge)
    m_d2,       \* the dictionary object d2
    m_prev,     \* d1 as it was before the latest merge call
    \* ---- the workset upload paths
    u_lims,     \* the LIMS: workset id -> [name, val]
    u_store,    \* the "worksets" database: document id -> document, {} when free
    u_last,     \* the upload that has just run: [path, persisted, fresh, written]
    \* ---- diff.diff_objects
    d_o1,       \* the first document
    d_o2,       \* the second document
    d_called,   \* which of the calls "fwd" (o1, o2) and "bwd" (o2, o1) have run
    d_fwd,      \* the outcome of diff_objects(o1, o2): [raised, diffs]
    d_bwd,      \* the outcome of diff_objects(o2, o1)
    \* ---- objectsDB.ProcessSpec
    c_hist_sort,  \* history map: artifact id -> its processes, in dict order
    c_hist_list,  \* the list object of artifact ids handed to ProcessSpec
    c_isFinLib,   \* the finished-library flag
    c_pc,         \* "new" | "walk" | "resolve" | "done"
    c_i,          \* how many artifacts of hist_list the walk has passed
    c_steps,      \* the category lists of the ProcessSpec under construction
    c_reps,       \* its resolved representatives
    c_first,      \* the ProcessSpec constructed before this one, if any
    \* ---- objectsDB.SampleDB._get_top_level_agrlibval_steps
    t_AgrLibQCs,  \* anchor id -> [has: the sample is in it, hist: its history's processes]
    t_order,      \* the iteration (insertion) order of the AgrLibQCs mapping
    t_pc,         \* "start" | "done"
    t_out,        \* the outcome of the call: [raised, result]
    \* ---- objectsDB.SampleDB._get_sample_run_metrics / _make_sample_run_id
    r_in,         \* the fields one sequencing run is read from
    r_samp_db,    \* self.samp_db is set
    r_pc,         \* "start" | "done"
    r_called,     \* _make_sample_run_id was called
    r_out,        \* its outcome: [exc, val]
    r_sample_runs, \* the run ids recorded in sample_runs[key]
    \* ---- objectsDB.SampleDB._get_prep_leter
    l_prep_info,  \* the preps in the order of the mapping: [key, info]
    l_pc,         \* "start" | "done"
    l_out,        \* the outcome: [raised, prep_info_new (letter -> [key, info])]
    \* ---- objectsDB.ProjectDB.__init__
    p_project,    \* the LIMS project: open_date, close_date, application, escalations
    p_samples,    \* the documents SampleDB builds for the project's samples
    p_pc,         \* the step of __init__ to run next
    p_obj,        \* self.obj
    \* ---- objectsDB.SampleDB._get_sample_info, lines 338-344
    s_in,         \* the sample: its steps, flag, application, labels, run
    s_pc,         \* "preps" | "runs" | "letters" | "done" | "raised"
    s_preps,      \* preps, in the order of the mapping: [key, info]
    s_obj,        \* self.obj['library_prep'], or no letters when absent
    \* ---- utils.merge on dictionaries as objects
    h_heap,       \* address -> the dictionary object there: key -> leaf or reference
    h_init,       \* the heap before the first merge
    h_merges,     \* the number of merge calls made
    \* ---- scripts/validation_of_LIMS_upgrade.recursive_comp
    v_stage,      \* the project object of the stage server
    v_prod,       \* the project object of the production server
    v_order,      \* the order list(set(...)) gives the top keys
    v_pc,         \* "start" | "done"
    v_out,         \* the outcome of the call: [raised, diff]
    \* ---- Prep.set_prep_info, lines 859-864, and Prep._get_lib_val_info
    lv_steps,     \* the classified history: [libvalends, libvalstart, prepreplibvalends, prepreplibvalstart, latestCaliper]
    lv_templ,     \* the dictionary object self.lib_val_templ
    lv_lib,       \* self.library_validations
    lv_pre,       \* self.pre_prep_library_validations
    lv_pc,         \* "lib" | "pre" | "done" | "raised"
    \* ---- _get_preps_and_libval over several histories of one sample
    f_in,         \* [hists, application, isFinLib, labels]
    f_preps,      \* preps: a list of [key, info] in insertion order
    f_obj,        \* the outcome of _get_prep_leter: [raised, new]
    f_pc,          \* "preps" | "letters" | "done" | "raised"
    \* ---- parallel.masterProcessSQL and its processWSULSQL workers
    q_procs,      \* args.procs
    q_wslist,     \* wslist: the workset ids, in order
    q_mpc,        \* the master: "spawn" | "put" | "wait" | "alive" | "returned"
    q_put,        \* how many ids of wslist the master has queued
    q_queue,      \* worksetQueue
    q_wpc,        \* worker -> "get" | "work" | "empty" | "logged" | "exited"
    q_ws_id,      \* worker -> the id it works on, 0 when none
    q_posted,     \* the ids whose document is in the store
    q_logq,       \* logQueue: the number of records in it
    q_handled,     \* the number of records passed to the master's logger
    \* ---- escalation_running_notes.main
    e_rows,       \* escalations: the rows (escalation, sample) of the query
    e_i,          \* how many rows the first loop has taken
    e_projects,   \* projects: project id -> event id -> the samples of the entry
    e_notes,      \* the running notes made: [project, event, samples]
    e_pc,          \* "group" | "notes" | "done"
    \* ---- project_summary_upload_LIMS.processPSUL
    p_qsizeOk,    \* whether queue.qsize() is implemented on the platform
    p_run,        \* worker -> the run (masterProcess) that started it
    p_queue,      \* run -> its projectsQueue
    p_locks,      \* the project names with a lockfile in options.lockdir
    p_wpc,        \* worker -> position in processPSUL
    p_proj,       \* worker -> projname (0 when none)
    p_created,    \* worker -> whether its open(lockfile, "w") succeeded
    p_taken,      \* worker -> the project names it got from the queue
    p_outcome,    \* worker -> "saved" | "raised" | "skipped" per project handled
    p_done        \* worker -> number of queue.task_done() calls

mergeVars == <<m_pc, m_a, m_d1, m_d2, m_prev>>
uploadVars == <<u_lims, u_store, u_last>>

diffVars == <<d_o1, d_o2, d_called, d_fwd, d_bwd>>

classifyVars == <<c_hist_sort, c_hist_list, c_isFinLib, c_pc, c_i, c_steps, c_reps, c_first>>

topVars == <<t_AgrLibQCs, t_order, t_pc, t_out>>

runVars == <<r_in, r_samp_db, r_pc, r_called, r_out, r_sample_runs>>

letterVars == <<l_prep_info, l_pc, l_out>>

projectVars == <<p_project, p_samples, p_pc, p_obj>>

sampleVars == <<s_in, s_pc, s_preps, s_obj>>

heapVars == <<h_heap, h_init, h_merges>>

compVars == <<v_stage, v_prod, v_order, v_pc, v_out>>

libvalVars == <<lv_steps, lv_templ, lv_lib, lv_pre, lv_pc>>

finVars == <<f_in, f_preps, f_obj, f_pc>>

sqlVars == <<q_procs, q_wslist, q_mpc, q_put, q_queue, q_wpc, q_ws_id, q_posted, q_logq, q_handled>>

escVars == <<e_rows, e_i, e_projects, e_notes, e_pc>>

psulVars == <<p_qsizeOk, p_run, p_queue, p_locks, p_wpc, p_proj, p_created, p_taken, p_outcome, p_done>>

vars == <<mergeVars, uploadVars, diffVars, classifyVars, topVars, runVars, letterVars, projectVars, sampleVars, heapVars, compVars, libvalVars, finVars, sqlVars, escVars, psulVars>>

(***************************************************************************)
(* Python values.  A dictionary is [k |-> "dict", d |-> function from its  *)
(* keys to values]; any other value is a leaf: an int, a str, a list or    *)
(* None.                                                                   *)
(***************************************************************************)
MaxLeaf == 1

Dict(f) == [k |-> "dict", d |-> f]
EmptyDict == Dict(<<>>)
IntLeaf(n) == [k |-> "int", v |-> n]
StrLeaf(s) == [k |-> "str", s |-> s]
ListLeaf(l) == [k |-> "list", l |-> l]
NoneLeaf == [k |-> "none"]

\* isinstance(x, dict)
IsDict(x) == x.k = "dict"

IntLeaves == {IntLeaf(n) : n \in 0..MaxLeaf}

\* every dictionary with keys among `keys` and values among `vals`
DictsOver(keys, vals) == {Dict(f) : f \in UNION {[S -> vals] : S \in SUBSET keys}}

TopKeys == {"a", "b"}
InnerKeys == {"x", "y"}

\* documents of nesting depth at most two over integer leaves
MergeDocs == DictsOver(TopKeys, IntLeaves \cup DictsOver(InnerKeys, IntLeaves))

(***************************************************************************)
(* utils.merge(d1, d2): the value of d1 when the call returns.             *)
(***************************************************************************)
\* a merge that lets d2 win on a key both hold
mergeConflictOverwrite(v1, v2) == v2

\* key in both, not both dictionaries (lines 20-21): d1[key] is left alone
mergeConflict(v1, v2) == v1

\* a merge that creates a new nested dictionary empty instead of copying it
mergeNewKeyShallow(v2) == IF IsDict(v2) THEN EmptyDict ELSE v2

\* key absent from d1 (lines 22-23): d1[key] = d2[key]
mergeNewKey(v2) == v2

RECURSIVE merge(_, _)
merge(d1, d2) ==
    Dict([key \in DOMAIN d1.d \cup DOMAIN d2.d |->
            IF key \in DOMAIN d2.d
            THEN IF key \in DOMAIN d1.d
                 THEN IF IsDict(d1.d[key]) /\ IsDict(d2.d[key])
                      THEN merge(d1.d[key], d2.d[key])
                      ELSE mergeConflict(d1.d[key], d2.d[key])
                 ELSE mergeNewKey(d2.d[key])
            ELSE d1.d[key]])

\* the (path, value) pairs of a document: every key at every depth
RECURSIVE Entries(_, _)
Entries(doc, prefix) ==
    UNION {{<<Append(prefix, key), doc.d[key]>>}
             \cup (IF IsDict(doc.d[key])
                   THEN Entries(doc.d[key], Append(prefix, key))
                   ELSE {})
           : key \in DOMAIN doc.d}

KeyPaths(doc) == {e[1] : e \in Entries(doc, <<>>)}
LeafEntries(doc) == {e \in Entries(doc, <<>>) : ~IsDict(e[2])}

(***************************************************************************)
(* The workset upload: scripts/workset_upload_sql.py main (--workset) and  *)
(* parallel.processWSULSQL (one pass of its loop body).                    *)
(***************************************************************************)
MaxDocs == 2
MaxRev == 3

Worksets == {"w1", "w2"}
WsNames == {"n1", "n2"}
LimsVals == {0, 1}
DocIds == 1..MaxDocs

\* Workset_SQL(session, log, step).obj: the document computed from the LIMS
wsObj(lims, w) ==
    Dict([key \in {"id", "name", "date_run", "projects"} |->
            CASE key = "id" -> StrLeaf(w)
              [] key = "name" -> StrLeaf(lims[w].name)
              [] key = "date_run" -> IntLeaf(lims[w].val)
              [] OTHER -> Dict([p \in {"P1"} |-> IntLeaf(lims[w].val)])])

\* the documents a view returns for a key, in document-id order
ViewRows(store, field, value) ==
    {i \in DocIds : store[i] # EmptyDict /\ store[i].d[field] = value}

Min(S) == CHOOSE x \in S : \A y \in S : x <= y

\* result[0]["doc"] if result else {}
FirstDoc(store, field, value) ==
    IF ViewRows(store, field, value) = {}
    THEN EmptyDict
    ELSE store[Min(ViewRows(store, field, value))]

\* the document merged the other way round: the persisted values win
finalDocWorkerPersistedWins(obj, doc) == IF doc # EmptyDict THEN merge(doc, obj) ELSE obj

\* processWSULSQL: final_doc = merge(ws.obj, doc) if doc else ws.obj
finalDocWorker(obj, doc) == IF doc # EmptyDict THEN merge(obj, doc) ELSE obj

\* main: final_doc = merge(ws.obj, doc)
finalDocMain(obj, doc) == merge(obj, doc)

DocId(doc) == doc.d["_id"].v
DocRev(doc) == doc.d["_rev"].v

\* couch.post_document: a document with an _id replaces the stored one and
\* gets the next revision; one without gets a free id
CanPost(store, doc) ==
    IF "_id" \in DOMAIN doc.d
    THEN DocRev(doc) < MaxRev
    ELSE \E i \in DocIds : store[i] = EmptyDict

Stamp(doc, i, rev) ==
    Dict([key \in DOMAIN doc.d \cup {"_id", "_rev"} |->
            CASE key = "_id" -> IntLeaf(i)
              [] key = "_rev" -> IntLeaf(rev)
              [] OTHER -> doc.d[key]])

post_document(store, doc) ==
    IF "_id" \in DOMAIN doc.d
    THEN [store EXCEPT ![DocId(doc)] = Stamp(doc, DocId(doc), DocRev(doc) + 1)]
    ELSE LET i == Min({j \in DocIds : store[j] = EmptyDict})
         IN [store EXCEPT ![i] = Stamp(doc, i, 1)]

\* couch.delete_document
delete_document(store, doc) == [store EXCEPT ![DocId(doc)] = EmptyDict]

NoUpload == [path |-> "none", persisted |-> EmptyDict, fresh |-> EmptyDict,
             written |-> EmptyDict]

(***************************************************************************)
(* diff.diff_objects(o1, o2, parent).  An outcome is [raised, diffs]:      *)
(* raised when the call ends in an exception (nothing in diff_objects      *)
(* catches one), else diffs holds the report as a set of <<path, pair>>.   *)
(* A path [pfx, keys] stands for the report key: f"{parent} {key}" when    *)
(* pfx is "" and f"key {parent} {key}" when pfx is "key".                  *)
(***************************************************************************)
Chars == {"x"}
DigitStr == <<"0", "1", "2", "3">>

\* the leaves the compared documents hold: ints, None, strings, lists of ints
DiffLeaves ==
    IntLeaves \cup {NoneLeaf}
        \cup {StrLeaf(<<>>)} \cup {StrLeaf(<<c>>) : c \in Chars}
        \cup {ListLeaf(<<>>), ListLeaf(<<0>>), ListLeaf(<<1>>)}

DiffInnerKeys == {"x"}
DiffDocs == DictsOver(TopKeys, DiffLeaves \cup DictsOver(DiffInnerKeys, DiffLeaves))

\* bool(x)
Truthy(x) ==
    CASE x.k = "dict" -> DOMAIN x.d # {}
      [] x.k = "int" -> x.v # 0
      [] x.k = "str" -> x.s # <<>>
      [] x.k = "list" -> x.l # <<>>
      [] OTHER -> FALSE

Ok(x) == [err |-> FALSE, val |-> x]
Err == [err |-> TRUE, val |-> NoneLeaf]

\* `key in o` for a str key: membership in a dict, substring of a str,
\* element of a list; TypeError on an int or None
Contains(o, key) ==
    CASE o.k = "dict" -> Ok(key \in DOMAIN o.d)
      [] o.k = "str" -> Ok(\E i \in 1..Len(o.s) : o.s[i] = key)
      [] o.k = "list" -> Ok(FALSE)
      [] OTHER -> Err

\* o[key] for a str key: TypeError on a str and on a list
GetItem(o, key) ==
    IF o.k = "dict" /\ key \in DOMAIN o.d THEN Ok(o.d[key]) ELSE Err

\* o[n] for an int n taken from a list: IndexError past the end
GetIndex(o, n) ==
    IF o.k = "list" /\ n < Len(o.l) THEN Ok(IntLeaf(o.l[n + 1])) ELSE Err

Missing == StrLeaf(<<"missing">>)
Path(pfx, parent, key) == [pfx |-> pfx, keys |-> Append(parent, key)]
NoDiffs == [raised |-> FALSE, diffs |-> {}]
Raised == [raised |-> TRUE, diffs |-> {}]

\* line 62-63 for a key both hold, o1[key] not a dictionary
diffLeaf(v1, v2, parent, key) ==
    IF v1 # v2
    THEN [raised |-> FALSE, diffs |-> {<<Path("", parent, key), <<v1, v2>>>>}]
    ELSE NoDiffs

RECURSIVE diff_objects(_, _, _)
\* the first loop's body for one key of o1 (lines 56-67)
diffFirstLoop(o1, o2, parent, key) ==
    LET has == Contains(o2, key)
        got == GetItem(o2, key)
    IN IF has.err THEN Raised
       ELSE IF has.val
       THEN IF got.err THEN Raised
            ELSE IF IsDict(o1.d[key])
                 THEN diff_objects(o1.d[key], got.val, Append(parent, key))
                 ELSE diffLeaf(o1.d[key], got.val, parent, key)
       ELSE IF Truthy(o1.d[key])
            THEN [raised |-> FALSE,
                  diffs |-> {<<Path("key", parent, key), <<o1.d[key], Missing>>>>}]
            ELSE NoDiffs

\* the second loop (lines 69-71): for key in o2
diffSecondLoop(o1, o2, parent) ==
    CASE o2.k = "dict" ->
            [raised |-> FALSE,
             diffs |-> {<<Path("key", parent, key), <<Missing, o2.d[key]>>>> :
                          key \in {k \in DOMAIN o2.d : k \notin DOMAIN o1.d /\ Truthy(o2.d[k])}}]
      [] o2.k = "str" ->
            \* o2[key] is a TypeError for every character that is no key of o1
            IF \E i \in 1..Len(o2.s) : o2.s[i] \notin DOMAIN o1.d THEN Raised ELSE NoDiffs
      [] o2.k = "list" ->
            \* an int is no key of o1, so o2[key] is looked up for every element
            IF \E i \in 1..Len(o2.l) : GetIndex(o2, o2.l[i]).err
            THEN Raised
            ELSE [raised |-> FALSE,
                  diffs |-> {<<Path("key", parent, DigitStr[o2.l[i] + 1]),
                               <<Missing, GetIndex(o2, o2.l[i]).val>>>> :
                               i \in {j \in 1..Len(o2.l) : Truthy(GetIndex(o2, o2.l[j]).val)}}]
      [] OTHER -> Raised

diff_objects(o1, o2, parent) ==
    LET parts == {diffFirstLoop(o1, o2, parent, key) : key \in DOMAIN o1.d}
                    \cup {diffSecondLoop(o1, o2, parent)}
    IN IF \E p \in parts : p.raised
       THEN Raised
       ELSE [raised |-> FALSE, diffs |-> UNION {p.diffs : p \in parts}]

(***************************************************************************)
(* objectsDB.ProcessSpec: the classification of one sample's history.      *)
(* A process is [id, type, date, outart]; outart FALSE stands for an       *)
(* output artifact of None.                                                *)
(***************************************************************************)
MaxHist == 3

\* the category tables of process_categories: category -> its process types
PREPREPSTART == {"PREPREPSTART"}
PREPSTART == {"PREPSTART"}
PREPEND == {"PREPEND"}
LIBVAL == {"LIBVAL"}
LIBVALFINISHEDLIB == {"LIBVAL", "LIBVALFINISHEDLIB"}
AGRLIBVAL == {"AGRLIBVAL"}
AGRINITQC == {"AGRINITQC"}
INITALQC == {"INITALQC"}
INITALQCFINISHEDLIB == {"INITALQC", "INITALQCFINISHEDLIB"}
WORKSET == {"WORKSET"}
SEQSTART == {"SEQSTART"}
DILSTART == {"DILSTART"}
POOLING == {"POOLING"}
DEMULTIPLEX == {"DEMULTIPLEX"}
SEQUENCING == {"SEQUENCING"}
CALIPER == {"CALIPER"}

NoProc == [id |-> 0, type |-> "none", date |-> 0, outart |-> FALSE]

\* functions.get_last_first(process_list, last): the latest (last) or the
\* earliest process by date, the first one met among equals; None when empty
RECURSIVE get_last_first(_, _)
get_last_first(process_list, last) ==
    IF process_list = <<>> THEN NoProc
    ELSE IF Len(process_list) = 1 THEN process_list[1]
    ELSE LET n == Len(process_list)
             best == get_last_first(SubSeq(process_list, 1, n - 1), last)
             pro == process_list[n]
         IN IF (last /\ pro.date > best.date) \/ (~last /\ pro.date < best.date)
            THEN pro
            ELSE best

\* list.reverse()
Reverse(l) == [i \in 1..Len(l) |-> l[Len(l) + 1 - i]]

\* [pro for pro in art_steps.values() if pro['type'] in cat]
OfType(art_steps, cat) ==
    LET test(pro) == pro.type \in cat IN SelectSeq(art_steps, test)

\* [pro for pro in art_steps.values() if pro['type'] in cat and pro['outart']]
OfTypeWithOut(art_steps, cat) ==
    LET test(pro) == pro.type \in cat /\ pro.outart IN SelectSeq(art_steps, test)

\* ProcessSpec.__init__, lines 681-716
NewSteps ==
    [initialqcends |-> <<>>, initialqcs |-> <<>>, preprepstarts |-> <<>>,
     prepreplibvals |-> <<>>, prepreplibvalends |-> <<>>, libvals |-> <<>>,
     libvalends |-> <<>>, prepstarts |-> <<>>, prepends |-> <<>>,
     worksets |-> <<>>, seqstarts |-> <<>>, dilstarts |-> <<>>,
     poolingsteps |-> <<>>, demproc |-> <<>>, seq |-> <<>>, caliper_procs |-> <<>>]

NewReps ==
    [latestCaliper |-> NoProc, initialqcend |-> NoProc, initialqstart |-> NoProc,
     lastseq |-> NoProc, latestdem |-> NoProc, workset |-> NoProc,
     libvalstart |-> NoProc, libvalend |-> NoProc, prepreplibvalend |-> NoProc,
     prepstart |-> NoProc, prepend |-> NoProc, prepreplibvalstart |-> NoProc,
     preprepstart |-> NoProc, firstpoolstep |-> NoProc, dilstart |-> NoProc,
     seqstart |-> NoProc]

\* the first-seen-wins lists read as accumulating ones
firstSeenAppend(old, found) == old \o found

\* the first-seen-wins lists, lines 750-754: kept once non-empty
firstSeen(old, found) == IF old = <<>> THEN found ELSE old

\* the branch order read the other way round: a finished library first
prepBranchFinLibFirst(preprepstarts, prepends, isFinLib) ==
    IF isFinLib THEN "finlib"
    ELSE IF preprepstarts # <<>> /\ prepends = <<>> THEN "preprep"
    ELSE IF prepends # <<>> THEN "prep"
    ELSE "none"

\* the if / elif / elif of lines 731-742, taken anew for every artifact
prepBranch(preprepstarts, prepends, isFinLib) ==
    IF preprepstarts # <<>> /\ prepends = <<>> THEN "preprep"
    ELSE IF isFinLib THEN "finlib"
    ELSE IF prepends # <<>> THEN "prep"
    ELSE "none"

\* one pass of the loop of _set_prep_processes, lines 723-762
WalkStep(st, art_steps, isFinLib) ==
    LET init_qc == IF isFinLib THEN INITALQCFINISHEDLIB ELSE INITALQC
        agr_qc == IF isFinLib THEN AGRLIBVAL ELSE AGRINITQC
        preprepstarts == st.preprepstarts \o OfTypeWithOut(art_steps, PREPREPSTART)
        branch == prepBranch(preprepstarts, st.prepends, isFinLib)
    IN [initialqcends |-> st.initialqcends \o OfType(art_steps, agr_qc),
        initialqcs |-> st.initialqcs \o OfType(art_steps, init_qc),
        preprepstarts |-> preprepstarts,
        prepreplibvals |->
            IF branch = "preprep"
            THEN st.prepreplibvals \o OfType(art_steps, LIBVAL)
            ELSE st.prepreplibvals,
        prepreplibvalends |->
            IF branch = "preprep"
            THEN st.prepreplibvalends \o OfType(art_steps, AGRLIBVAL)
            ELSE st.prepreplibvalends,
        libvals |->
            IF branch = "finlib" THEN st.libvals \o OfType(art_steps, LIBVALFINISHEDLIB)
            ELSE IF branch = "prep" THEN st.libvals \o OfType(art_steps, LIBVAL)
            ELSE st.libvals,
        libvalends |->
            IF branch \in {"finlib", "prep"}
            THEN st.libvalends \o OfType(art_steps, AGRLIBVAL)
            ELSE st.libvalends,
        prepstarts |-> st.prepstarts \o OfTypeWithOut(art_steps, PREPSTART),
        prepends |-> st.prepends \o OfTypeWithOut(art_steps, PREPEND),
        worksets |-> st.worksets \o OfTypeWithOut(art_steps, WORKSET),
        seqstarts |-> firstSeen(st.seqstarts, OfTypeWithOut(art_steps, SEQSTART)),
        dilstarts |-> firstSeen(st.dilstarts, OfTypeWithOut(art_steps, DILSTART)),
        poolingsteps |-> st.poolingsteps \o OfType(art_steps, POOLING),
        demproc |-> st.demproc \o OfType(art_steps, DEMULTIPLEX),
        seq |-> st.seq \o OfType(art_steps, SEQUENCING),
        caliper_procs |-> st.caliper_procs \o OfType(art_steps, CALIPER)]

\* lines 763-779
Resolve(st) ==
    [latestCaliper |-> get_last_first(st.caliper_procs, TRUE),
     initialqcend |-> get_last_first(st.initialqcends, TRUE),
     initialqstart |-> get_last_first(st.initialqcs, FALSE),
     lastseq |-> get_last_first(st.seq, TRUE),
     latestdem |-> get_last_first(st.demproc, TRUE),
     workset |-> get_last_first(st.worksets, TRUE),
     libvalstart |-> get_last_first(st.libvals, FALSE),
     libvalend |-> get_last_first(st.libvalends, TRUE),
     prepreplibvalend |-> get_last_first(st.prepreplibvalends, TRUE),
     prepstart |-> get_last_first(st.prepstarts, FALSE),
     prepend |-> get_last_first(st.prepends, TRUE),
     prepreplibvalstart |-> get_last_first(st.prepreplibvals, FALSE),
     preprepstart |-> get_last_first(st.preprepstarts, FALSE),
     firstpoolstep |-> get_last_first(st.poolingsteps, FALSE),
     dilstart |-> get_last_first(st.dilstarts, FALSE),
     seqstart |-> get_last_first(st.seqstarts, FALSE)]

\* what one artifact of a drawn history holds: the types of its processes
\* and whether they have an output artifact
StepMenu ==
    {<<>>}
      \cup {<<[type |-> t, outart |-> TRUE]>> :
              t \in {"PREPREPSTART", "PREPSTART", "PREPEND", "LIBVAL", "AGRLIBVAL",
                     "SEQSTART", "DILSTART", "SEQUENCING"}}
      \cup {<<[type |-> "SEQSTART", outart |-> FALSE]>>,
            <<[type |-> "WORKSET", outart |-> TRUE], [type |-> "POOLING", outart |-> TRUE]>>,
            <<[type |-> "DEMULTIPLEX", outart |-> TRUE], [type |-> "CALIPER", outart |-> FALSE]>>,
            <<[type |-> "INITALQC", outart |-> TRUE], [type |-> "AGRINITQC", outart |-> TRUE]>>}

\* how the run dates lie along the history
DateOrders == {"rising", "falling"}

\* the history map of a drawn history: artifact a holds the processes
\* 10a+1, 10a+2, ...
HistSort(shape, dates) ==
    [a \in 1..Len(shape) |->
        [j \in 1..Len(shape[a]) |->
            [id |-> 10 * a + j,
             type |-> shape[a][j].type,
             date |-> IF dates = "rising" THEN a ELSE Len(shape) + 1 - a,
             outart |-> shape[a][j].outart]]]

NoSpec == [steps |-> NewSteps, reps |-> NewReps, built |-> FALSE]

(***************************************************************************)
(* objectsDB.SampleDB._get_top_level_agrlibval_steps.  The mapping         *)
(* topLevel_AgrLibQC is a dict [order, live]: the keys in insertion order  *)
(* and those not popped.  An iterator over a dict remembers the size the   *)
(* dict had when the loop began and raises RuntimeError ("dictionary       *)
(* changed size during iteration") on the next step after a pop.           *)
(***************************************************************************)
MaxAnchors == 3

\* the processes a history may hold: AGRLIBVAL steps 1 and 2, another step 3
AnchorHists ==
    {<<>>,
     <<[id |-> 1, type |-> "AGRLIBVAL"]>>,
     <<[id |-> 2, type |-> "AGRLIBVAL"]>>,
     <<[id |-> 1, type |-> "AGRLIBVAL"], [id |-> 2, type |-> "AGRLIBVAL"]>>,
     <<[id |-> 3, type |-> "LIBVAL"], [id |-> 1, type |-> "AGRLIBVAL"]>>,
     <<[id |-> 3, type |-> "LIBVAL"]>>}

AnchorInfos ==
    {[has |-> TRUE, hist |-> h] : h \in AnchorHists} \cup {[has |-> FALSE, hist |-> <<>>]}

Perms(S) == {f \in [1..Cardinality(S) -> S] : \A i, j \in DOMAIN f : i # j => f[i] # f[j]}

\* set(l)
SetOf(l) == {l[i] : i \in DOMAIN l}

\* lines 588-602: the AGRLIBVAL process ids of each anchor holding the sample
Ancestry(info) ==
    LET isAgr(pro) == pro.type \in AGRLIBVAL
        proc_info == SelectSeq(info.hist, isAgr)
    IN [i \in DOMAIN proc_info |-> proc_info[i].id]

\* topLevel_AgrLibQC after the first loop: the anchors holding the sample
TopLevelDict(AgrLibQCs, order) ==
    LET has(a) == AgrLibQCs[a].has
    IN [order |-> SelectSeq(order, has), live |-> {a \in DOMAIN AgrLibQCs : has(a)}]

\* an iteration that sees the dict as it is and never notices a pop
iterChangedNever(d, used) == FALSE

\* the check a dict iterator makes at each step
iterChanged(d, used) == used # Cardinality(d.live)

TopRaised == [raised |-> TRUE, result |-> {}]

\* the loop of lines 606-610 from its j-th entry on, for the anchor AgrLibQC
\* with ancestry set LibQC
RECURSIVE TopInner(_, _, _, _, _, _)
TopInner(AgrLibQCs, d, AgrLibQC, LibQC, j, used) ==
    IF iterChanged(d, used) THEN [raised |-> TRUE, d |-> d]
    ELSE IF j > Len(d.order) THEN [raised |-> FALSE, d |-> d]
    ELSE IF d.order[j] \notin d.live
         THEN TopInner(AgrLibQCs, d, AgrLibQC, LibQC, j + 1, used)
    ELSE IF /\ d.order[j] # AgrLibQC
            /\ LibQC \subseteq SetOf(Ancestry(AgrLibQCs[d.order[j]]))
            /\ AgrLibQC \in d.live
         THEN TopInner(AgrLibQCs, [d EXCEPT !.live = @ \ {AgrLibQC}],
                       AgrLibQC, LibQC, j + 1, used)
         ELSE TopInner(AgrLibQCs, d, AgrLibQC, LibQC, j + 1, used)

\* the loop of lines 603-610 from its i-th entry on
RECURSIVE TopOuter(_, _, _, _)
TopOuter(AgrLibQCs, d, i, used) ==
    IF iterChanged(d, used) THEN TopRaised
    ELSE IF i > Len(d.order) THEN [raised |-> FALSE, result |-> d.live]
    ELSE IF d.order[i] \notin d.live THEN TopOuter(AgrLibQCs, d, i + 1, used)
    ELSE LET LibQC == SetOf(Ancestry(AgrLibQCs[d.order[i]]))
         IN IF LibQC = {}
            THEN TopOuter(AgrLibQCs, d, i + 1, used)
            ELSE LET r == TopInner(AgrLibQCs, d, d.order[i], LibQC, 1,
                                   Cardinality(d.live))
                 IN IF r.raised THEN TopRaised
                    ELSE TopOuter(AgrLibQCs, r.d, i + 1, used)

\* _get_top_level_agrlibval_steps: raised, or the keys of the mapping returned
get_top_level_agrlibval_steps(AgrLibQCs, order) ==
    LET d == TopLevelDict(AgrLibQCs, order)
    IN TopOuter(AgrLibQCs, d, 1, Cardinality(d.live))

(***************************************************************************)
(* objectsDB.SampleDB._get_barcode, _make_sample_run_id and the part of    *)
(* _get_sample_run_metrics that calls it.  A string is the sequence of its *)
(* characters; the location, the 'Run ID' and the reagent label are built  *)
(* from their fields and taken apart again by split and strip.             *)
(***************************************************************************)
MaxRunFields == 4
MaxLocFields == 2

FieldVals == {<<"a">>, <<"b">>}
LaneVals == {<<"1">>, <<"2">>}
RunTypes == {"46", "MiSeq Run (MiSeq) 4.0", "HiSeq Run (HiSeq) 5.0"}

\* sep.join(parts)
RECURSIVE Join(_, _)
Join(parts, sep) ==
    IF parts = <<>> THEN <<>>
    ELSE IF Len(parts) = 1 THEN parts[1]
    ELSE parts[1] \o <<sep>> \o Join(Tail(parts), sep)

\* s.split(sep) for a one-character sep
RECURSIVE Split(_, _)
Split(s, sep) ==
    IF \A i \in DOMAIN s : s[i] # sep THEN <<s>>
    ELSE LET i == Min({j \in DOMAIN s : s[j] = sep})
         IN <<SubSeq(s, 1, i - 1)>> \o Split(SubSeq(s, i + 1, Len(s)), sep)

\* s.strip(c) for a one-character c
RECURSIVE Strip(_, _)
Strip(s, c) ==
    IF s = <<>> THEN s
    ELSE IF Head(s) = c THEN Strip(Tail(s), c)
    ELSE IF s[Len(s)] = c THEN Strip(SubSeq(s, 1, Len(s) - 1), c)
    ELSE s

\* the reagent labels of a prep: none, empty, a bare barcode, a name followed
\* by the barcode in parentheses, and one whose parenthesis is never closed
LabelText(label) ==
    CASE label.kind = "raw" -> label.inner
      [] label.kind = "paren" -> label.prefix \o <<"(">> \o label.inner \o <<")">>
      [] label.kind = "unclosed" -> label.prefix \o <<"(">> \o label.inner
      [] OTHER -> <<>>

Labels ==
    {[kind |-> "absent", prefix |-> <<>>, inner |-> <<>>],
     [kind |-> "none", prefix |-> <<>>, inner |-> <<>>],
     [kind |-> "empty", prefix |-> <<>>, inner |-> <<>>],
     [kind |-> "unclosed", prefix |-> <<"N">>, inner |-> <<"a">>]}
    \cup {[kind |-> "raw", prefix |-> <<>>, inner |-> v] : v \in FieldVals}
    \cup {[kind |-> "paren", prefix |-> p, inner |-> v] :
            p \in {<<>>, <<"N", " ">>}, v \in FieldVals}

\* preps[key]: a mapping with or without the key 'reagent_label'
PrepOf(label) ==
    CASE label.kind = "absent" -> EmptyDict
      [] label.kind = "none" -> Dict([key \in {"reagent_label"} |-> NoneLeaf])
      [] OTHER -> Dict([key \in {"reagent_label"} |-> StrLeaf(LabelText(label))])

\* lims_run.udf: a mapping with or without the key 'Run ID'
UdfOf(run_fields) ==
    IF run_fields = <<>> THEN EmptyDict
    ELSE Dict([key \in {"Run ID"} |-> StrLeaf(Join(run_fields, "_"))])

\* seq_art.location[1]
LocationOf(loc_fields) == Join(loc_fields, ":")

SeqsUpTo(S, n) == UNION {[1..k -> S] : k \in 1..n}

RunInputs ==
    [run_type : RunTypes,
     loc_fields : SeqsUpTo(LaneVals, MaxLocFields),
     run_fields : {<<>>} \cup SeqsUpTo(FieldVals, MaxRunFields),
     label : Labels]

Returned(x) == [exc |-> "none", val |-> x]
Raises(e) == [exc |-> e, val |-> NoneLeaf]

\* lines 372-382
get_barcode(reagent_label) ==
    IF Truthy(reagent_label)
    THEN LET parts == Split(reagent_label.s, "(")
         IN IF Len(parts) >= 2
            THEN StrLeaf(Strip(parts[2], ")"))
            ELSE reagent_label
    ELSE NoneLeaf

\* a lane always read from the first field of the location
laneFieldFirst(run_type) == 1

\* lines 467-470: the field of the location the lane is read from
laneField(run_type) ==
    IF run_type \in {"46", "MiSeq Run (MiSeq) 4.0"} THEN 2 ELSE 1

\* line 475: run_id.split('_')[3]
fcidField == 4

\* lines 464-480
make_sample_run_id(location, udf, prep, run_type) ==
    LET barcode == get_barcode(prep.d["reagent_label"])
        loc == Split(location, ":")
    IN IF laneField(run_type) > Len(loc) THEN Raises("IndexError")
       ELSE IF "Run ID" \notin DOMAIN udf.d THEN Returned(NoneLeaf)
       ELSE LET run_id == Split(udf.d["Run ID"].s, "_")
            IN IF fcidField > Len(run_id) THEN Raises("IndexError")
               ELSE IF barcode = NoneLeaf THEN Returned(NoneLeaf)
               ELSE Returned(StrLeaf(Join(<<loc[laneField(run_type)], run_id[1],
                                            run_id[fcidField], barcode.s>>, "_")))

\* line 429
RunGuard(udf, prep) == "reagent_label" \in DOMAIN prep.d /\ "Run ID" \in DOMAIN udf.d

NoRunOut == Returned(NoneLeaf)

(***************************************************************************)
(* objectsDB.SampleDB._get_prep_leter.  A date is IntLeaf(n) for the n-th  *)
(* day, or None.                                                           *)
(***************************************************************************)
MaxPreps == 3

PrepDates == {NoneLeaf} \cup {IntLeaf(n) : n \in 1..3}

\* Prep.prep_info, the two keys the letters depend on
PrepInfos ==
    {Dict([key \in {"pre_prep_start_date", "prep_start_date"} |->
              IF key = "pre_prep_start_date" THEN pre ELSE start]) :
        pre \in PrepDates, start \in PrepDates}

\* a mapping without its None values
delete_Nones(doc) ==
    Dict([key \in {k \in DOMAIN doc.d : doc.d[k] # NoneLeaf} |-> doc.d[key]])

\* chr(65 + i)
Letters == <<"A", "B", "C", "D", "E", "F">>

\* lines 493-497
prepDate(val) ==
    IF Truthy(val.d["pre_prep_start_date"])
    THEN val.d["pre_prep_start_date"]
    ELSE val.d["prep_start_date"]

\* a < b between two dates raises TypeError when either is None
Comparable(a, b) == a # NoneLeaf /\ b # NoneLeaf

\* sorted(dates, key=...): a stable insertion of each entry after the
\* entries that are not greater; done is the part already sorted
RECURSIVE SortedByDate(_, _)
SortedByDate(todo, done) ==
    IF todo = <<>> THEN [raised |-> FALSE, order |-> done]
    ELSE LET e == Head(todo)
             d == prepDate(e.info)
         IN IF done # <<>> /\ \E i \in DOMAIN done : ~Comparable(prepDate(done[i].info), d)
            THEN [raised |-> TRUE, order |-> <<>>]
            ELSE LET n == Cardinality({i \in DOMAIN done : prepDate(done[i].info).v <= d.v})
                 IN SortedByDate(Tail(todo),
                                 SubSeq(done, 1, n) \o <<e>> \o SubSeq(done, n + 1, Len(done)))

\* a sort of two or more entries compares them all; one entry is compared
\* with nothing
sortedDates(prep_info) ==
    IF Len(prep_info) >= 2 /\ \E i \in DOMAIN prep_info : prepDate(prep_info[i].info) = NoneLeaf
    THEN [raised |-> TRUE, order |-> <<>>]
    ELSE SortedByDate(prep_info, <<>>)

LetterRaised == [raised |-> TRUE, new |-> <<>>]

\* lines 482-500
get_prep_leter(prep_info) ==
    IF Len(prep_info) = 1
    THEN [raised |-> FALSE, new |-> [letter \in {"A"} |-> prep_info[1]]]
    ELSE LET srt == sortedDates(prep_info)
         IN IF srt.raised THEN LetterRaised
            ELSE [raised |-> FALSE,
                  new |-> [letter \in {Letters[i] : i \in DOMAIN srt.order} |->
                             LET i == CHOOSE j \in DOMAIN srt.order : Letters[j] = letter
                             IN [key |-> srt.order[i].key,
                                 info |-> delete_Nones(srt.order[i].info)]]]

NoLetters == [raised |-> FALSE, new |-> <<>>]

(***************************************************************************)
(* objectsDB.ProjectDB: the four steps of __init__ on self.obj.            *)
(***************************************************************************)
MaxSamples == 2

\* a run of a prep, with or without a finish date
RunDocs ==
    {EmptyDict} \cup
    {Dict([key \in {"sequencing_finish_date"} |-> IntLeaf(n)]) : n \in 1..2}

\* sampDB.obj: no preps, a prep without runs, a prep with one run
SampleDocs ==
    {EmptyDict,
     Dict([key \in {"library_prep"} |-> Dict([pk \in {"A"} |-> EmptyDict])])}
    \cup
    {Dict([key \in {"library_prep"} |->
        Dict([pk \in {"A"} |->
            Dict([rk \in {"sample_run_metrics"} |->
                Dict([id \in {"r1"} |-> run])])])]) : run \in RunDocs}

SampleNames == <<"s1", "s2", "s3">>

Projects ==
    [open_date : {NoneLeaf, IntLeaf(1)},
     close_date : {NoneLeaf, IntLeaf(2)},
     application : {NoneLeaf, StrLeaf(<<"RNA-seq">>)},
     escalations : {<<>>, <<StrLeaf(<<"101">>)>>}]

\* lines 107-119, the keys whose value does not depend on a udf
projectLevelInfo(project) ==
    LET keys == {"source", "application", "samples", "open_date", "close_date",
                 "entity_type", "project_name", "project_id", "details",
                 "isFinishedLib"}
        val(key) ==
            CASE key = "source" -> StrLeaf(<<"lims">>)
              [] key = "application" -> project.application
              [] key = "samples" -> EmptyDict
              [] key = "open_date" -> project.open_date
              [] key = "close_date" -> project.close_date
              [] key = "entity_type" -> StrLeaf(<<"project_summary">>)
              [] key = "project_name" -> StrLeaf(<<"P1">>)
              [] key = "project_id" -> StrLeaf(<<"P1">>)
              [] key = "details" -> EmptyDict
              [] OTHER -> IntLeaf(0)
    IN Dict([key \in keys |-> val(key)])

\* obj[key] = val
SetKey(obj, key, val) ==
    Dict([k \in DOMAIN obj.d \cup {key} |-> IF k = key THEN val ELSE obj.d[k]])

\* lines 84-85
openEscalations(obj, project) ==
    IF project.escalations # <<>>
    THEN SetKey(obj, "escalations", ListLeaf(project.escalations))
    ELSE obj

\* lines 207-236
makeDBSamples(obj, samples) ==
    LET n == Len(samples)
        o1 == SetKey(obj, "no_of_samples", IntLeaf(n))
        o2 == IF n > 0 THEN SetKey(o1, "first_initial_qc", StrLeaf(<<"3000-10-10">>))
                       ELSE o1
        o3 == SetKey(o2, "samples",
                     Dict([name \in {SampleNames[i] : i \in 1..n} |->
                            samples[CHOOSE i \in 1..n : SampleNames[i] = name]]))
    IN delete_Nones(o3)

\* lines 180-186: the finish dates of the runs of the preps of the samples
seqFin(obj) ==
    LET samples == obj.d["samples"].d
        preps == UNION {{samples[sn].d["library_prep"].d[pk] :
                            pk \in DOMAIN samples[sn].d["library_prep"].d} :
                         sn \in {x \in DOMAIN samples : "library_prep" \in DOMAIN samples[x].d}}
        runs == UNION {{prep.d["sample_run_metrics"].d[rk] :
                            rk \in DOMAIN prep.d["sample_run_metrics"].d} :
                         prep \in {x \in preps : "sample_run_metrics" \in DOMAIN x.d}}
    IN {run.d["sequencing_finish_date"].v :
           run \in {x \in runs : "sequencing_finish_date" \in DOMAIN x.d}}

Max(S) == CHOOSE x \in S : \A y \in S : y <= x

\* lines 178-190
sequencingFinished(obj, project) ==
    IF Truthy(project.close_date) /\ "samples" \in DOMAIN obj.d
    THEN IF seqFin(obj) # {}
         THEN SetKey(obj, "sequencing_finished", IntLeaf(Max(seqFin(obj))))
         ELSE SetKey(obj, "sequencing_finished", NoneLeaf)
    ELSE obj

(***************************************************************************)
(* objectsDB.SampleDB._get_sample_info, lines 338-344, with ProcessSpec,   *)
(* Prep.set_prep_info, _get_preps_and_libval and _get_sample_run_metrics.  *)
(* The provenance of the sample is a chain of steps in lab order, one      *)
(* artifact per step; a key of preps is IntLeaf(id) or 'Finished'.         *)
(***************************************************************************)
ChainKinds ==
    <<"PREPREPSTART", "PREPSTART", "PREPEND", "WORKSET", "AGRLIBVAL",
      "SEQUENCING", "DEMULTIPLEX">>

Applications == {"Finished library", "Amplicon with adaptors", "RNA-seq"}

\* inart.reagent_labels of the input artifact of the AGRLIBVAL step
LabelLists ==
    {<<>>,
     <<<<"N", " ", "(", "a", ")">>>>,
     <<<<"N", " ", "(", "a", ")">>, <<"M", " ", "(", "b", ")">>>>}

\* the fields of the 'Run ID' of the sequencing step; none when it has no udf
SampleRunFields ==
    {<<>>, <<<<"a">>, <<"b">>, <<"a">>>>, <<<<"a">>, <<"b">>, <<"a">>, <<"b">>>>}

SampleInputs ==
    [has : SUBSET {ChainKinds[i] : i \in DOMAIN ChainKinds},
     isFinLib : BOOLEAN,
     application : Applications,
     labels : LabelLists,
     run_fields : SampleRunFields,
     samp_db : BOOLEAN]

\* the steps the sample went through, in lab order
Chain(has) == LET present(kind) == kind \in has IN SelectSeq(ChainKinds, present)

\* history.history of the chain up to its n-th step: artifact a holds the
\* process 10a+1 run on day a
ChainHistSort(has, n) ==
    [a \in 1..n |-> <<[id |-> 10 * a + 1, type |-> Chain(has)[a], date |-> a,
                       outart |-> TRUE]>>]

\* history.history_list: the artifacts from the latest to the earliest
ChainHistList(n) == [i \in 1..n |-> n + 1 - i]

\* the position of a kind in the chain, 0 when the sample never had it
ChainPos(has, kind) ==
    IF kind \in has
    THEN CHOOSE a \in DOMAIN Chain(has) : Chain(has)[a] = kind
    ELSE 0

\* the loop of lines 722-762 over hist_list from its i-th entry on
RECURSIVE WalkFrom(_, _, _, _, _)
WalkFrom(st, hist_sort, hist_list, i, isFinLib) ==
    IF i > Len(hist_list) THEN st
    ELSE WalkFrom(WalkStep(st, hist_sort[hist_list[i]], isFinLib),
                  hist_sort, hist_list, i + 1, isFinLib)

\* ProcessSpec(hist_sort, hist_list, isFinLib): the lists and representatives
ProcessSpecOf(hist_sort, hist_list, isFinLib) ==
    LET st == WalkFrom(NewSteps, hist_sort, Reverse(hist_list), 1, isFinLib)
    IN [steps |-> st, reps |-> Resolve(st)]

Finished == StrLeaf(<<"Finished">>)

\* the attributes of an artifact as a mapping
udf_dict(art) == EmptyDict

\* d1 = d2 in the place of d1.update(d2)
updateReplace(d1, d2) == d2

\* d1.update(d2)
Update(d1, d2) ==
    Dict([key \in DOMAIN d1.d \cup DOMAIN d2.d |->
            IF key \in DOMAIN d2.d THEN d2.d[key] ELSE d1.d[key]])

\* lines 790-799
NewPrepInfo ==
    LET keys == {"reagent_label", "library_validation", "pre_prep_library_validation",
                 "prep_start_date", "prep_finished_date", "prep_id", "workset_setup",
                 "workset_name", "pre_prep_start_date"}
    IN Dict([key \in keys |->
               IF key \in {"library_validation", "pre_prep_library_validation"}
               THEN EmptyDict ELSE NoneLeaf])

\* lines 867-929 for the validation steps of the chain: one record per
\* step, without its None values
get_lib_val_info(agrlibQCsteps, libvalstart, labels) ==
    LET rec(step) ==
            Dict([key \in {"finish_date", "start_date", "prep_status", "reagent_labels"} |->
                CASE key = "finish_date" -> IntLeaf(step.date)
                  [] key = "start_date" ->
                        IF libvalstart = NoProc THEN NoneLeaf ELSE IntLeaf(libvalstart.date)
                  [] key = "prep_status" -> StrLeaf(<<"PASSED">>)
                  [] OTHER -> ListLeaf([i \in DOMAIN labels |-> StrLeaf(labels[i])])])
        ids == {agrlibQCsteps[i].id : i \in DOMAIN agrlibQCsteps}
        stepOf(id) == agrlibQCsteps[CHOOSE i \in DOMAIN agrlibQCsteps : agrlibQCsteps[i].id = id]
    IN delete_Nones(Dict([id \in ids |-> delete_Nones(rec(stepOf(id)))]))

\* an identity key that prefers the prep start
prepId2ABPrepStartFirst(reps, aplication, isFinLib) ==
    IF aplication \in {"Amplicon with adaptors", "Finished library"} \/ isFinLib
    THEN Finished
    ELSE IF reps.prepstart # NoProc THEN IntLeaf(reps.prepstart.id)
    ELSE IF reps.preprepstart # NoProc THEN IntLeaf(reps.preprepstart.id)
    ELSE NoneLeaf

\* the identity key of lines 834-858
prepId2AB(reps, aplication, isFinLib) ==
    IF aplication \in {"Amplicon with adaptors", "Finished library"} \/ isFinLib
    THEN Finished
    ELSE IF reps.preprepstart # NoProc THEN IntLeaf(reps.preprepstart.id)
    ELSE IF reps.prepstart # NoProc THEN IntLeaf(reps.prepstart.id)
    ELSE NoneLeaf

\* Prep.set_prep_info, lines 834-864
set_prep_info(spec, aplication, isFinLib, labels) ==
    LET reps == spec.reps
        fin == aplication \in {"Amplicon with adaptors", "Finished library"} \/ isFinLib
        i0 == NewPrepInfo
        i1 == IF reps.prepstart # NoProc
              THEN SetKey(i0, "prep_start_date", IntLeaf(reps.prepstart.date)) ELSE i0
        i2 == IF reps.prepend # NoProc
              THEN SetKey(SetKey(i1, "prep_finished_date", IntLeaf(reps.prepend.date)),
                          "prep_id", IntLeaf(reps.prepend.id))
              ELSE i1
        i3 == IF reps.workset # NoProc
              THEN SetKey(SetKey(i2, "workset_setup", IntLeaf(reps.workset.id)),
                          "workset_name", StrLeaf(<<"W1">>))
              ELSE i2
        i4 == IF reps.preprepstart # NoProc
              THEN Update(SetKey(i3, "pre_prep_start_date", IntLeaf(reps.preprepstart.date)),
                          udf_dict(reps.preprepstart))
              ELSE IF reps.prepstart # NoProc THEN Update(i3, udf_dict(reps.prepstart))
              ELSE i3
    IN [id2AB |-> prepId2AB(reps, aplication, isFinLib),
        prep_info |-> IF fin THEN i0 ELSE i4,
        library_validations |->
            IF reps.libvalend # NoProc
            THEN get_lib_val_info(spec.steps.libvalends, reps.libvalstart, labels)
            ELSE EmptyDict,
        pre_prep_library_validations |->
            IF reps.prepreplibvalend # NoProc
            THEN get_lib_val_info(spec.steps.prepreplibvalends, reps.prepreplibvalstart, labels)
            ELSE EmptyDict]

\* a label that is never found
parsReagentLabelsNone(last_libval) == NoneLeaf

\* lines 572-585 for a history without a POOLING step
pars_reagent_labels(last_libval) ==
    IF "reagent_labels" \in DOMAIN last_libval.d
    THEN IF Len(last_libval.d["reagent_labels"].l) = 1
         THEN last_libval.d["reagent_labels"].l[1]
         ELSE NoneLeaf
    ELSE NoneLeaf

\* lines 565-569: the sequence of the reagent type of that name, if any
get_barcode_from_name(barcode_name) ==
    IF barcode_name = NoneLeaf THEN NoneLeaf ELSE StrLeaf(<<"A", "C", "G", "T">>)

\* self.AgrLibQCs for the chain: its AGRLIBVAL step, holding the sample
ChainAgrLibQCs(has) ==
    IF "AGRLIBVAL" \in has
    THEN LET n == ChainPos(has, "AGRLIBVAL")
         IN <<[has |-> TRUE,
               hist |-> [a \in 1..n |-> [id |-> 10 * a + 1, type |-> Chain(has)[a]]]]>>
    ELSE <<>>

\* lines 533-551 for one anchor: preps after its history is taken in
addPrep(preps, prep) ==
    LET key == prep.id2AB
        p1 == IF Truthy(key) /\ \A i \in DOMAIN preps : preps[i].key # key
              THEN Append(preps, [key |-> key, info |-> prep.prep_info])
              ELSE preps
        at == CHOOSE i \in DOMAIN p1 : p1[i].key = key
        info1 == p1[at].info
        info2 == IF prep.pre_prep_library_validations # EmptyDict
                 THEN SetKey(info1, "pre_prep_library_validation",
                             Update(info1.d["pre_prep_library_validation"],
                                    prep.pre_prep_library_validations))
                 ELSE info1
        lv == prep.library_validations
        last_libval == lv.d[Max(DOMAIN lv.d)]
        label == pars_reagent_labels(last_libval)
        info3 == IF lv # EmptyDict
                 THEN LET a == SetKey(info2, "library_validation",
                                      Update(info2.d["library_validation"], lv))
                          b == IF "prep_status" \in DOMAIN last_libval.d
                               THEN SetKey(a, "prep_status", last_libval.d["prep_status"])
                               ELSE a
                      IN SetKey(SetKey(b, "reagent_label", label),
                                "barcode", get_barcode_from_name(label))
                 ELSE info2
    IN IF Truthy(key) THEN [p1 EXCEPT ![at].info = info3] ELSE p1

\* lines 552-561
finishedPrep(preps, labels) ==
    [i \in DOMAIN preps |->
        IF preps[i].key = Finished
        THEN LET label == IF labels = <<>> THEN NoneLeaf ELSE StrLeaf(labels[1])
                 a == SetKey(preps[i].info, "reagent_label", label)
                 b == IF labels = <<>> THEN a
                      ELSE SetKey(a, "barcode", get_barcode_from_name(label))
             IN [key |-> Finished, info |-> delete_Nones(b)]
        ELSE preps[i]]

\* lines 516-563
get_preps_and_libval(in) ==
    LET AgrLibQCs == ChainAgrLibQCs(in.has)
        top == get_top_level_agrlibval_steps(AgrLibQCs, [i \in DOMAIN AgrLibQCs |-> i])
        n == ChainPos(in.has, "AGRLIBVAL")
        steps == ProcessSpecOf(ChainHistSort(in.has, n), ChainHistList(n), in.isFinLib)
        prep == set_prep_info(steps, in.application, in.isFinLib, in.labels)
    IN IF top.result = {} THEN <<>>
       ELSE finishedPrep(addPrep(<<>>, prep), in.labels)

\* seq_art.location[1] of the chain's sequencing artifact
ChainLocation == <<"1", ":", "2">>

NoRuns == [raised |-> FALSE, runs |-> {}]

\* the classified history of the run of the chain
RunHistory(in) ==
    LET last == IF "DEMULTIPLEX" \in in.has THEN "DEMULTIPLEX" ELSE "SEQUENCING"
        n == ChainPos(in.has, last)
    IN ProcessSpecOf(ChainHistSort(in.has, n), ChainHistList(n), in.isFinLib)

\* lines 418-425: the prep key a run is filed under
sampleRunKey(reps, isFinLib) ==
    IF isFinLib THEN Finished
    ELSE IF reps.preprepstart # NoProc THEN IntLeaf(reps.preprepstart.id)
    ELSE IF reps.prepstart # NoProc THEN IntLeaf(reps.prepstart.id)
    ELSE NoneLeaf

\* lines 407-462 for the run of the chain: the DEMULTIPLEX step when there is
\* one, else the SEQUENCING step; runs holds [key, id, d] for
\* sample_runs[key][id] = d
get_sample_run_metrics(in, preps) ==
    LET last == IF "DEMULTIPLEX" \in in.has THEN "DEMULTIPLEX" ELSE "SEQUENCING"
        n == ChainPos(in.has, last)
        spec == RunHistory(in)
        reps == spec.reps
        key == sampleRunKey(reps, in.isFinLib)
        udf == UdfOf(in.run_fields)
        mine == {i \in DOMAIN preps : preps[i].key = key}
        prep == preps[CHOOSE i \in mine : TRUE].info
        out == make_sample_run_id(ChainLocation, udf, prep, reps.lastseq.type)
        d == delete_Nones(Dict([k \in {"sample_run_metrics_id", "sequencing_start_date",
                                       "sequencing_run_QC_finished", "seq_qc_flag"} |->
                CASE k = "sequencing_start_date" ->
                        IF reps.seqstart # NoProc THEN IntLeaf(reps.seqstart.date)
                        ELSE NoneLeaf
                  [] k = "sequencing_run_QC_finished" -> IntLeaf(n)
                  [] k = "seq_qc_flag" -> StrLeaf(<<"PASSED">>)
                  [] OTHER -> NoneLeaf]))
    IN IF n = 0 \/ ~Truthy(key) THEN NoRuns
       ELSE IF reps.lastseq = NoProc THEN [raised |-> TRUE, runs |-> {}]
       ELSE IF mine = {} \/ ~RunGuard(udf, prep) THEN NoRuns
       ELSE IF out.exc # "none" THEN [raised |-> TRUE, runs |-> {}]
       ELSE IF Truthy(out.val) /\ in.samp_db
            THEN [raised |-> FALSE, runs |-> {[key |-> key, id |-> out.val.s, d |-> d]}]
            ELSE NoRuns

\* lines 341-343
attachRuns(preps, runs) ==
    [i \in DOMAIN preps |->
        LET mine == {r \in runs : r.key = preps[i].key}
        IN IF mine = {} THEN preps[i]
           ELSE [preps[i] EXCEPT !.info =
                    SetKey(@, "sample_run_metrics",
                           Dict([id \in {r.id : r \in mine} |->
                                   (CHOOSE r \in mine : r.id = id).d]))]]

(***************************************************************************)
(* utils.merge on dictionaries as objects: a value of a dictionary is a    *)
(* leaf or a reference to another dictionary, and d1[key] = d2[key] stores *)
(* the same reference in d1.  Dictionary 1 is the d1 of every call,        *)
(* dictionaries 2 and 3 are only ever passed as d2.                        *)
(***************************************************************************)
MaxMerges == 2

Ref(a) == [k |-> "ref", a |-> a]
IsRef(x) == x.k = "ref"

HeapRoots == {1, 2, 3}
HeapIncoming == {2, 3}

\* the documents a heap starts from: key 'a' absent, a leaf, or a mapping
HeapDocs == DictsOver({"a"}, IntLeaves \cup DictsOver(InnerKeys, IntLeaves))

\* the heap holding the three documents: root i at i, its mapping at 3 + i
HeapOf(docs) ==
    [a \in 1..6 |->
        IF a \in HeapRoots
        THEN [key \in DOMAIN docs[a].d |->
                IF IsDict(docs[a].d[key]) THEN Ref(3 + a) ELSE docs[a].d[key]]
        ELSE IF "a" \in DOMAIN docs[a - 3].d /\ IsDict(docs[a - 3].d["a"])
             THEN docs[a - 3].d["a"].d
             ELSE <<>>]

\* the document at an address, as a value
RECURSIVE DeepValue(_, _)
DeepValue(heap, a) ==
    Dict([key \in DOMAIN heap[a] |->
            IF IsRef(heap[a][key]) THEN DeepValue(heap, heap[a][key].a)
            ELSE heap[a][key]])

\* line 23: d1[key] = d2[key]
heapStore(heap, a1, key, v2) ==
    [heap EXCEPT ![a1] = [k \in DOMAIN heap[a1] \cup {key} |->
                            IF k = key THEN v2 ELSE heap[a1][k]]]

\* lines 16-24 over the keys of d2 still to visit
RECURSIVE heapMergeKeys(_, _, _, _)
heapMergeKeys(heap, a1, a2, keys) ==
    IF keys = {} THEN heap
    ELSE LET key == CHOOSE k \in keys : TRUE
             v2 == heap[a2][key]
             next ==
                IF key \in DOMAIN heap[a1]
                THEN IF IsRef(heap[a1][key]) /\ IsRef(v2)
                     THEN heapMergeKeys(heap, heap[a1][key].a, v2.a, DOMAIN heap[v2.a])
                     ELSE heap
                ELSE heapStore(heap, a1, key, v2)
         IN heapMergeKeys(next, a1, a2, keys \ {key})

\* merge(d1, d2) for the dictionaries at a1 and a2
heapMerge(heap, a1, a2) == heapMergeKeys(heap, a1, a2, DOMAIN heap[a2])

(***************************************************************************)
(* scripts/validation_of_LIMS_upgrade.recursive_comp.  A string is the     *)
(* sequence of its parts, a host name being one part.                      *)
(***************************************************************************)
ProdHost == "genologics.scilifelab.se"
StageHost == "genologics-stage.scilifelab.se"

CompLeaves ==
    IntLeaves \cup {StrLeaf(<<"p">>), StrLeaf(<<"q">>),
                    StrLeaf(<<"https://", ProdHost>>), StrLeaf(<<"https://", StageHost>>)}

CompInnerKeys == <<"x">>

CompDocs ==
    DictsOver(TopKeys, CompLeaves \cup DictsOver({CompInnerKeys[i] : i \in DOMAIN CompInnerKeys},
                                                 CompLeaves))

\* `part in val`: a substring of a str, a key of a dict, TypeError on an int
HostIn(part, val) ==
    CASE val.k = "str" -> Ok(\E i \in DOMAIN val.s : val.s[i] = part)
      [] val.k = "dict" -> Ok(part \in DOMAIN val.d)
      [] OTHER -> Err

\* list(set(list(stage.keys()) + list(prod.keys()))), in the order given
CompKeys(stage, prod, order) ==
    LET present(key) == key \in DOMAIN stage.d \cup DOMAIN prod.d
    IN SelectSeq(order \o CompInnerKeys, present)

CompRaised == [raised |-> TRUE, diff |-> FALSE]

\* lines 78-91 for unequal values that are not both dictionaries
compLeaf(prod_val, stage_val) ==
    LET inProd == HostIn(ProdHost, prod_val)
        inStage == HostIn(StageHost, stage_val)
    IN IF inProd.err THEN CompRaised
       ELSE IF inProd.val /\ inStage.err THEN CompRaised
       ELSE [raised |-> FALSE, diff |-> TRUE]

\* lines 68-92 from the keys still to visit on, diff being what it is so far
RECURSIVE compFrom(_, _, _, _, _)
compFrom(stage, prod, order, keys, diff) ==
    IF keys = <<>> THEN [raised |-> FALSE, diff |-> diff]
    ELSE LET key == Head(keys)
             rest == Tail(keys)
         IN IF key \notin DOMAIN stage.d THEN compFrom(stage, prod, order, rest, TRUE)
            ELSE IF key \notin DOMAIN prod.d THEN compFrom(stage, prod, order, rest, TRUE)
            ELSE LET prod_val == prod.d[key]
                     stage_val == stage.d[key]
                 IN IF prod_val = stage_val THEN compFrom(stage, prod, order, rest, diff)
                    ELSE IF IsDict(prod_val) /\ IsDict(stage_val)
                    THEN IF diff
                         THEN LET r == compFrom(stage_val, prod_val, order,
                                                CompKeys(stage_val, prod_val, order), FALSE)
                              IN IF r.raised THEN CompRaised
                                 ELSE compFrom(stage, prod, order, rest, r.diff)
                         ELSE compFrom(stage, prod, order, rest, FALSE)
                    ELSE LET r == compLeaf(prod_val, stage_val)
                         IN IF r.raised THEN CompRaised
                            ELSE compFrom(stage, prod, order, rest, r.diff)

\* recursive_comp(stage, prod), lines 65-92
recursive_comp(stage, prod, order) ==
    compFrom(stage, prod, order, CompKeys(stage, prod, order), FALSE)

NoComp == [raised |-> FALSE, diff |-> FALSE]

(***************************************************************************)
(* The idle value of each component's variables, held under the            *)
(* specifications of the other components.                                 *)
(***************************************************************************)
(***************************************************************************)
(* objectsDB.Prep._get_lib_val_info as called by set_prep_info, lines      *)
(* 859-864.  library_validation = self.lib_val_templ binds the one         *)
(* dictionary object of the Prep, which every pass of the loop and both    *)
(* calls write to; a record is the copy delete_Nones makes of it.          *)
(***************************************************************************)
MaxEnds == 2

\* what differs between validation-end nodes: whether the technician has
\* initials and whether the input artifact has a 'Concentration' udf
EndVariants == [initials : BOOLEAN, conc : BOOLEAN]

\* the validation-end nodes base+1, base+2, ... run on days 5, 6, ...
EndLists(base) ==
    UNION {{[i \in 1..n |-> [id |-> base + i, date |-> 4 + i,
                             initials |-> f[i].initials, conc |-> f[i].conc]] :
               f \in [1..n -> EndVariants]} : n \in 0..MaxEnds}

StartNodes ==
    {NoProc} \cup {[id |-> 1, type |-> "LIBVAL", date |-> day, outart |-> TRUE] : day \in {1, 3}}

CaliperNodes == {NoProc, [id |-> 9, type |-> "CALIPER", date |-> 2, outart |-> FALSE]}

LibValHistories ==
    [libvalends : EndLists(20), libvalstart : StartNodes,
     prepreplibvalends : EndLists(10), prepreplibvalstart : StartNodes,
     latestCaliper : CaliperNodes]

\* lines 803-811
lib_val_templ ==
    Dict([key \in {"start_date", "finish_date", "well_location", "prep_status",
                   "reagent_labels", "average_size_bp", "initials", "caliper_image"} |->
            NoneLeaf])

\* udf_dict(inart) of the input artifact of a validation-end node
inartUdf(step) ==
    IF step.conc THEN Dict([key \in {"concentration"} |-> IntLeaf(step.id)]) ELSE EmptyDict

LibValRaised == [raised |-> TRUE, templ |-> EmptyDict, vals |-> EmptyDict]

\* line 925: latest_caliper_id and Process(latest_caliper_id['id']).date_run
\* >= Process(libvalstart['id']).date_run; libvalstart['id'] of None raises
caliperTest(latest_caliper_id, libvalstart) ==
    IF latest_caliper_id = NoProc THEN "no"
    ELSE IF libvalstart = NoProc THEN "TypeError"
    ELSE IF latest_caliper_id.date >= libvalstart.date THEN "yes"
    ELSE "no"

\* one pass of the loop, lines 899-927: the dictionary object afterwards
libValPass(templ, step, libvalstart, latest_caliper_id) ==
    LET start_date == IF libvalstart = NoProc THEN NoneLeaf ELSE IntLeaf(libvalstart.date)
        t1 == SetKey(templ, "finish_date", IntLeaf(step.date))
        t2 == SetKey(t1, "start_date", start_date)
        t3 == SetKey(t2, "well_location", StrLeaf(<<"A", ":", "1">>))
        t4 == SetKey(t3, "prep_status", StrLeaf(<<"PASSED">>))
        t5 == SetKey(t4, "reagent_labels", ListLeaf(<<>>))
        t6 == Update(t5, inartUdf(step))
        t7 == IF step.initials THEN SetKey(t6, "initials", StrLeaf(<<"T", "N">>)) ELSE t6
    IN IF caliperTest(latest_caliper_id, libvalstart) = "yes"
       THEN SetKey(t7, "caliper_image", StrLeaf(<<"img">>))
       ELSE t7

\* the loop of lines 898-928 from the i-th node on
RECURSIVE libValLoop(_, _, _, _, _, _)
libValLoop(templ, agrlibQCsteps, i, libvalstart, latest_caliper_id, vals) ==
    IF i > Len(agrlibQCsteps)
    THEN [raised |-> FALSE, templ |-> templ, vals |-> delete_Nones(vals)]
    ELSE IF caliperTest(latest_caliper_id, libvalstart) = "TypeError" THEN LibValRaised
    ELSE LET t == libValPass(templ, agrlibQCsteps[i], libvalstart, latest_caliper_id)
         IN libValLoop(t, agrlibQCsteps, i + 1, libvalstart, latest_caliper_id,
                       Dict([id \in DOMAIN vals.d \cup {agrlibQCsteps[i].id} |->
                               IF id = agrlibQCsteps[i].id THEN delete_Nones(t)
                               ELSE vals.d[id]]))

\* Prep._get_lib_val_info, lines 892-929, on the dictionary object templ
lib_val_info(templ, agrlibQCsteps, libvalstart, latest_caliper_id) ==
    libValLoop(templ, agrlibQCsteps, 1, libvalstart, latest_caliper_id, EmptyDict)

(***************************************************************************)
(* objectsDB.SampleDB._get_preps_and_libval, lines 516-563, over the       *)
(* histories of the surviving anchors and of their input artifacts.  The   *)
(* provenance of the sample is a pool of steps; a history holds some of    *)
(* them in lab order.                                                      *)
(***************************************************************************)
MaxHistories == 2

\* the steps the histories of one sample are made of: process 10a+1 run on
\* day a
StepPool == <<"PREPREPSTART", "LIBVAL", "AGRLIBVAL", "AGRLIBVAL">>

\* history.history of the steps picked, artifact a holding step a of the pool
PoolHistSort(picked) ==
    [a \in DOMAIN StepPool |->
        IF a \in picked
        THEN <<[id |-> 10 * a + 1, type |-> StepPool[a], date |-> a, outart |-> TRUE]>>
        ELSE <<>>]

FinInputs ==
    [hists : UNION {[1..n -> SUBSET DOMAIN StepPool] : n \in 1..MaxHistories},
     application : Applications,
     isFinLib : BOOLEAN,
     labels : LabelLists]

\* lines 524-532 for one history: steps = ProcessSpec(...); prep.set_prep_info
PrepOfHistory(in, h) ==
    set_prep_info(ProcessSpecOf(PoolHistSort(in.hists[h]), ChainHistList(Len(StepPool)),
                                in.isFinLib),
                  in.application, in.isFinLib, in.labels)

\* lines 533-551 for one history, with very_last_libval_key: a mapping from
\* the keys of preps to the latest validation id seen
addPrepLast(acc, prep) ==
    LET preps == acc.preps
        very_last == acc.very_last
        key == prep.id2AB
        p1 == IF Truthy(key) /\ \A i \in DOMAIN preps : preps[i].key # key
              THEN Append(preps, [key |-> key, info |-> prep.prep_info])
              ELSE preps
        at == CHOOSE i \in DOMAIN p1 : p1[i].key = key
        info1 == p1[at].info
        info2 == IF prep.pre_prep_library_validations # EmptyDict
                 THEN SetKey(info1, "pre_prep_library_validation",
                             Update(info1.d["pre_prep_library_validation"],
                                    prep.pre_prep_library_validations))
                 ELSE info1
        lv == prep.library_validations
        last_libval_key == Max(DOMAIN lv.d)
        last_libval == lv.d[last_libval_key]
        in_last == key \in DOMAIN very_last
        is_last == in_last /\ last_libval_key > very_last[key]
        label == pars_reagent_labels(last_libval)
        a == SetKey(info2, "library_validation", Update(info2.d["library_validation"], lv))
        b == IF "prep_status" \in DOMAIN last_libval.d
             THEN SetKey(a, "prep_status", last_libval.d["prep_status"])
             ELSE a
        c == SetKey(SetKey(b, "reagent_label", label), "barcode", get_barcode_from_name(label))
    IN IF ~Truthy(key) THEN acc
       ELSE IF lv = EmptyDict THEN [preps |-> [p1 EXCEPT ![at].info = info2], very_last |-> very_last]
       ELSE IF is_last \/ ~in_last
            THEN [preps |-> [p1 EXCEPT ![at].info = c],
                  very_last |-> [k \in DOMAIN very_last \cup {key} |->
                                    IF k = key THEN last_libval_key ELSE very_last[k]]]
       ELSE [preps |-> [p1 EXCEPT ![at].info = a], very_last |-> very_last]

\* the loop of lines 519-551 from the h-th history on
RECURSIVE prepsLoop(_, _, _)
prepsLoop(in, h, acc) ==
    IF h > Len(in.hists) THEN acc
    ELSE prepsLoop(in, h + 1, addPrepLast(acc, PrepOfHistory(in, h)))

\* lines 516-563
preps_and_libval(in) ==
    finishedPrep(prepsLoop(in, 1, [preps |-> <<>>, very_last |-> <<>>]).preps, in.labels)

(***************************************************************************)
(* parallel.masterProcessSQL, lines 13-41, and processWSULSQL, lines       *)
(* 58-103, as processes.  queue.get(block=True, timeout=3) of an empty     *)
(* queue either goes on waiting or raises Queue.Empty: how long three      *)
(* seconds are against the steps of the other processes is open.           *)
(***************************************************************************)
MaxProcs == 2

MaxWs == 2

\* lines 17-21
procsNb(wslist, procs) == IF Len(wslist) < procs THEN Len(wslist) ELSE procs

\* utils.stillRunning, lines 77-83: p.is_alive() for some child
stillRunning(wpc) == \E w \in DOMAIN wpc : wpc[w] # "exited"

(***************************************************************************)
(* escalation_running_notes.main, lines 137-200.  A row of the query is    *)
(* [event, project, sample]; project 0 is a sample without a project.      *)
(***************************************************************************)
MaxRows == 3

EscRows ==
    UNION {[1..n -> [event : 1..2, project : 0..1, sample : {"s1", "s2"}]] : n \in 0..MaxRows}

\* one pass of the loop of lines 138-168
groupRow(projects, row) ==
    LET p == row.project
        e == row.event
    IN IF p = 0 THEN projects
       ELSE IF p \in DOMAIN projects /\ e \in DOMAIN projects[p]
            THEN [projects EXCEPT ![p][e] = Append(@, row.sample)]
       ELSE [q \in DOMAIN projects \cup {p} |->
               IF q = p THEN [f \in {e} |-> <<row.sample>>] ELSE projects[q]]

\* lines 169-200: a note for every event of every project of the grouping
escNotes(projects) ==
    UNION {{[project |-> p, event |-> e, samples |-> projects[p][e]] :
               e \in DOMAIN projects[p]} : p \in DOMAIN projects}

(***************************************************************************)
(* project_summary_upload_LIMS.processPSUL, lines 119-160: the workers of  *)
(* one or of several runs, all with the same options.lockdir.              *)
(***************************************************************************)
MaxWorkers == 2
MaxRuns == 2
MaxProjects == 2

\* the project lists of a run: names of the LIMS, each at most once
ProjectLists ==
    {q \in UNION {[1..n -> 1..MaxProjects] : n \in 0..MaxProjects} :
        \A i, j \in DOMAIN q : i # j => q[i] # q[j]}

\* line 135: os.path.join(options.lockdir, projname) names an existing file
lockfileExists(locks, projname) == projname \in locks

IdlePSUL ==
    /\ p_qsizeOk = TRUE
    /\ p_run = <<>>
    /\ p_queue = <<>>
    /\ p_locks = {}
    /\ p_wpc = <<>>
    /\ p_proj = <<>>
    /\ p_created = <<>>
    /\ p_taken = <<>>
    /\ p_outcome = <<>>
    /\ p_done = <<>>

IdleEsc ==
    /\ e_rows = <<>>
    /\ e_i = 0
    /\ e_projects = <<>>
    /\ e_notes = {}
    /\ e_pc = "idle"

IdleSQL ==
    /\ q_procs = 0
    /\ q_wslist = <<>>
    /\ q_mpc = "idle"
    /\ q_put = 0
    /\ q_queue = <<>>
    /\ q_wpc = <<>>
    /\ q_ws_id = <<>>
    /\ q_posted = {}
    /\ q_logq = 0
    /\ q_handled = 0

IdleFin ==
    /\ f_in = <<>>
    /\ f_preps = <<>>
    /\ f_obj = NoLetters
    /\ f_pc = "idle"

IdleLibVal ==
    /\ lv_steps = <<>>
    /\ lv_templ = EmptyDict
    /\ lv_lib = EmptyDict
    /\ lv_pre = EmptyDict
    /\ lv_pc = "idle"

IdleDiff ==
    /\ d_o1 = EmptyDict
    /\ d_o2 = EmptyDict
    /\ d_called = {"idle"}
    /\ d_fwd = NoDiffs
    /\ d_bwd = NoDiffs

IdleUpload ==
    /\ u_lims = [w \in Worksets |-> [name |-> "n1", val |-> 0]]
    /\ u_store = [i \in DocIds |-> EmptyDict]
    /\ u_last = NoUpload

IdleClassify ==
    /\ c_hist_sort = <<>>
    /\ c_hist_list = <<>>
    /\ c_isFinLib = FALSE
    /\ c_pc = "idle"
    /\ c_i = 0
    /\ c_steps = NewSteps
    /\ c_reps = NewReps
    /\ c_first = NoSpec

IdleTop ==
    /\ t_AgrLibQCs = <<>>
    /\ t_order = <<>>
    /\ t_pc = "idle"
    /\ t_out = [raised |-> FALSE, result |-> {}]

IdleRun ==
    /\ r_in = <<>>
    /\ r_samp_db = FALSE
    /\ r_pc = "idle"
    /\ r_called = FALSE
    /\ r_out = NoRunOut
    /\ r_sample_runs = {}

IdleLetter ==
    /\ l_prep_info = <<>>
    /\ l_pc = "idle"
    /\ l_out = NoLetters

IdleProject ==
    /\ p_project = <<>>
    /\ p_samples = <<>>
    /\ p_pc = "idle"
    /\ p_obj = EmptyDict

IdleSample ==
    /\ s_in = <<>>
    /\ s_pc = "idle"
    /\ s_preps = <<>>
    /\ s_obj = NoLetters

IdleHeap ==
    /\ h_heap = <<>>
    /\ h_init = <<>>
    /\ h_merges = 0

IdleComp ==
    /\ v_stage = EmptyDict
    /\ v_prod = EmptyDict
    /\ v_order = <<>>
    /\ v_pc = "idle"
    /\ v_out = NoComp

IdleMerge ==
    /\ m_pc = "idle"
    /\ m_a = EmptyDict
    /\ m_d1 = EmptyDict
    /\ m_d2 = EmptyDict
    /\ m_prev = EmptyDict

InitMerge ==
    /\ m_pc = "start"
    /\ m_a \in MergeDocs
    /\ m_d1 = m_a
    /\ m_d2 \in MergeDocs
    /\ m_prev = m_a
    /\ IdleUpload
    /\ IdleDiff
    /\ IdleClassify
    /\ IdleTop
    /\ IdleRun
    /\ IdleLetter
    /\ IdleProject
    /\ IdleSample
    /\ IdleHeap
    /\ IdleComp
    /\ IdleLibVal
    /\ IdleFin
    /\ IdleSQL
    /\ IdleEsc
    /\ IdlePSUL

\* one call merge(d1, d2); the caller may call it again on its result
MergeCall ==
    /\ m_pc \in {"start", "merged"}
    /\ m_prev' = m_d1
    /\ m_d1' = merge(m_d1, m_d2)
    /\ m_pc' = IF m_pc = "start" THEN "merged" ELSE "merged2"
    /\ UNCHANGED <<m_a, m_d2, uploadVars, diffVars, classifyVars, topVars, runVars, letterVars, projectVars, sampleVars, heapVars, compVars, libvalVars, finVars, sqlVars, escVars, psulVars>>

NextMerge == MergeCall

SpecMerge == InitMerge /\ [][NextMerge]_vars

InitUpload ==
    /\ IdleMerge
    /\ IdleLetter
    /\ IdleProject
    /\ IdleSample
    /\ IdleHeap
    /\ IdleComp
    /\ IdleLibVal
    /\ IdleFin
    /\ IdleSQL
    /\ IdleEsc
    /\ IdlePSUL
    /\ u_lims \in [Worksets -> [name : WsNames, val : LimsVals]]
    /\ u_lims["w1"].name = "n1"
    /\ IdleDiff
    /\ IdleClassify
    /\ IdleTop
    /\ IdleRun
    /\ IdleLetter
    /\ IdleProject
    /\ IdleSample
    /\ IdleHeap
    /\ IdleComp
    /\ IdleLibVal
    /\ IdleFin
    /\ IdleSQL
    /\ IdleEsc
    /\ IdlePSUL
    /\ u_store = [i \in DocIds |-> EmptyDict]
    /\ u_last = NoUpload

\* the LIMS gets a new value for a workset
LimsChange ==
    /\ \E w \in Worksets, n \in LimsVals :
         /\ n # u_lims[w].val
         /\ u_lims' = [u_lims EXCEPT ![w].val = n]
    /\ u_last' = NoUpload
    /\ UNCHANGED <<u_store, mergeVars, diffVars, classifyVars, topVars, runVars, letterVars, projectVars, sampleVars, heapVars, compVars, libvalVars, finVars, sqlVars, escVars, psulVars>>

\* somebody edits a stored document directly on the store: a top-level leaf,
\* a nested leaf, or a key the LIMS does not know
ManualEdit ==
    /\ \E i \in DocIds, n \in LimsVals :
         /\ u_store[i] # EmptyDict
         /\ DocRev(u_store[i]) < MaxRev
         /\ \E edited \in
                {Dict([u_store[i].d EXCEPT !["date_run"] = IntLeaf(n)]),
                 Dict([u_store[i].d EXCEPT !["projects"] = Dict([p \in {"P1"} |-> IntLeaf(n)])]),
                 Dict([key \in DOMAIN u_store[i].d \cup {"comment"} |->
                         IF key = "comment" THEN IntLeaf(1) ELSE u_store[i].d[key]])} :
              /\ edited # u_store[i]
              /\ u_store' = [u_store EXCEPT ![i] = Stamp(edited, i, DocRev(u_store[i]) + 1)]
    /\ u_last' = NoUpload
    /\ UNCHANGED <<u_lims, mergeVars, diffVars, classifyVars, topVars, runVars, letterVars, projectVars, sampleVars, heapVars, compVars, libvalVars, finVars, sqlVars, escVars, psulVars>>

\* workset_upload_sql.main with --workset
UploadMain ==
    /\ \E w \in Worksets :
         LET obj == wsObj(u_lims, w)
             doc == FirstDoc(u_store, "id", obj.d["id"])
             final_doc == finalDocMain(obj, doc)
         IN /\ CanPost(u_store, final_doc)
            /\ u_store' = post_document(u_store, final_doc)
            /\ u_last' = [path |-> "main", persisted |-> doc, fresh |-> obj,
                          written |-> final_doc]
    /\ UNCHANGED <<u_lims, mergeVars, diffVars, classifyVars, topVars, runVars, letterVars, projectVars, sampleVars, heapVars, compVars, libvalVars, finVars, sqlVars, escVars, psulVars>>

\* processWSULSQL: the loop body for one workset id taken from the queue
UploadWorker ==
    /\ \E w \in Worksets :
         LET obj == wsObj(u_lims, w)
             doc == FirstDoc(u_store, "id", obj.d["id"])
             final_doc == finalDocWorker(obj, doc)
             dup == FirstDoc(u_store, "name", obj.d["name"])
             cleaned == IF dup # EmptyDict /\ dup.d["id"] # obj.d["id"]
                        THEN delete_document(u_store, dup)
                        ELSE u_store
         IN /\ CanPost(cleaned, final_doc)
            /\ u_store' = post_document(cleaned, final_doc)
            /\ u_last' = [path |-> "worker", persisted |-> doc, fresh |-> obj,
                          written |-> final_doc]
    /\ UNCHANGED <<u_lims, mergeVars, diffVars, classifyVars, topVars, runVars, letterVars, projectVars, sampleVars, heapVars, compVars, libvalVars, finVars, sqlVars, escVars, psulVars>>

NextUpload == LimsChange \/ ManualEdit \/ UploadMain \/ UploadWorker

SpecUpload == InitUpload /\ [][NextUpload]_vars

InitDiff ==
    /\ IdleMerge
    /\ IdleUpload
    /\ IdleClassify
    /\ IdleTop
    /\ IdleRun
    /\ IdleLetter
    /\ IdleProject
    /\ IdleSample
    /\ IdleHeap
    /\ IdleComp
    /\ IdleLibVal
    /\ IdleFin
    /\ IdleSQL
    /\ IdleEsc
    /\ IdlePSUL
    /\ d_o1 \in DiffDocs
    /\ d_o2 \in DiffDocs
    /\ d_called = {}
    /\ d_fwd = NoDiffs
    /\ d_bwd = NoDiffs

\* diff_objects(o1, o2)
DiffForward ==
    /\ "fwd" \notin d_called
    /\ "idle" \notin d_called
    /\ d_fwd' = diff_objects(d_o1, d_o2, <<>>)
    /\ d_called' = d_called \cup {"fwd"}
    /\ UNCHANGED <<d_o1, d_o2, d_bwd, mergeVars, uploadVars, classifyVars, topVars, runVars, letterVars, projectVars, sampleVars, heapVars, compVars, libvalVars, finVars, sqlVars, escVars, psulVars>>

\* diff_objects(o2, o1): the same documents compared the other way round
DiffBackward ==
    /\ "bwd" \notin d_called
    /\ "idle" \notin d_called
    /\ d_bwd' = diff_objects(d_o2, d_o1, <<>>)
    /\ d_called' = d_called \cup {"bwd"}
    /\ UNCHANGED <<d_o1, d_o2, d_fwd, mergeVars, uploadVars, classifyVars, topVars, runVars, letterVars, projectVars, sampleVars, heapVars, compVars, libvalVars, finVars, sqlVars, escVars, psulVars>>

NextDiff == DiffForward \/ DiffBackward

SpecDiff == InitDiff /\ [][NextDiff]_vars

InitClassify ==
    /\ IdleMerge
    /\ IdleUpload
    /\ IdleDiff
    /\ IdleTop
    /\ IdleRun
    /\ IdleLetter
    /\ IdleProject
    /\ IdleSample
    /\ IdleHeap
    /\ IdleComp
    /\ IdleLibVal
    /\ IdleFin
    /\ IdleSQL
    /\ IdleEsc
    /\ IdlePSUL
    /\ \E n \in 0..MaxHist : \E shape \in [1..n -> StepMenu], dates \in DateOrders :
         /\ c_hist_sort = HistSort(shape, dates)
         /\ c_hist_list = [a \in 1..n |-> n + 1 - a]
    /\ c_isFinLib \in BOOLEAN
    /\ c_pc = "new"
    /\ c_i = 0
    /\ c_steps = NewSteps
    /\ c_reps = NewReps
    /\ c_first = NoSpec

\* ProcessSpec(hist_sort, hist_list, isFinLib): __init__ up to the loop of
\* _set_prep_processes; hist_list.reverse() reverses the caller's list
Construct ==
    /\ c_pc = "new"
    /\ c_steps' = NewSteps
    /\ c_reps' = NewReps
    /\ c_hist_list' = Reverse(c_hist_list)
    /\ c_i' = 0
    /\ c_pc' = "walk"
    /\ UNCHANGED <<c_hist_sort, c_isFinLib, c_first, mergeVars, uploadVars, diffVars, topVars, runVars, letterVars, projectVars, sampleVars, heapVars, compVars, libvalVars, finVars, sqlVars, escVars, psulVars>>

\* for inart in hist_list: one artifact
Walk ==
    /\ c_pc = "walk"
    /\ c_i < Len(c_hist_list)
    /\ c_steps' = WalkStep(c_steps, c_hist_sort[c_hist_list[c_i + 1]], c_isFinLib)
    /\ c_i' = c_i + 1
    /\ UNCHANGED <<c_hist_sort, c_hist_list, c_isFinLib, c_pc, c_reps, c_first,
                   mergeVars, uploadVars, diffVars, topVars, runVars, letterVars, projectVars, sampleVars, heapVars, compVars, libvalVars, finVars, sqlVars, escVars, psulVars>>

\* the loop is over: the representatives are resolved
Resolved ==
    /\ c_pc = "walk"
    /\ c_i = Len(c_hist_list)
    /\ c_reps' = Resolve(c_steps)
    /\ c_pc' = "done"
    /\ UNCHANGED <<c_hist_sort, c_hist_list, c_isFinLib, c_i, c_steps, c_first,
                   mergeVars, uploadVars, diffVars, topVars, runVars, letterVars, projectVars, sampleVars, heapVars, compVars, libvalVars, finVars, sqlVars, escVars, psulVars>>

\* the caller constructs a ProcessSpec again from the same history objects
Again ==
    /\ c_pc = "done"
    /\ ~c_first.built
    /\ c_first' = [steps |-> c_steps, reps |-> c_reps, built |-> TRUE]
    /\ c_pc' = "new"
    /\ UNCHANGED <<c_hist_sort, c_hist_list, c_isFinLib, c_i, c_steps, c_reps,
                   mergeVars, uploadVars, diffVars, topVars, runVars, letterVars, projectVars, sampleVars, heapVars, compVars, libvalVars, finVars, sqlVars, escVars, psulVars>>

NextClassify == Construct \/ Walk \/ Resolved \/ Again

SpecClassify == InitClassify /\ [][NextClassify]_vars

InitTop ==
    /\ IdleMerge
    /\ IdleUpload
    /\ IdleDiff
    /\ IdleClassify
    /\ IdleRun
    /\ IdleLetter
    /\ IdleProject
    /\ IdleSample
    /\ IdleHeap
    /\ IdleComp
    /\ IdleLibVal
    /\ IdleFin
    /\ IdleSQL
    /\ IdleEsc
    /\ IdlePSUL
    /\ \E n \in 1..MaxAnchors :
         /\ t_AgrLibQCs \in [1..n -> AnchorInfos]
         /\ t_order \in Perms(1..n)
    /\ t_pc = "start"
    /\ t_out = [raised |-> FALSE, result |-> {}]

\* top_level_agrlibval_steps = self._get_top_level_agrlibval_steps()
GetTopLevel ==
    /\ t_pc = "start"
    /\ t_out' = get_top_level_agrlibval_steps(t_AgrLibQCs, t_order)
    /\ t_pc' = "done"
    /\ UNCHANGED <<t_AgrLibQCs, t_order, mergeVars, uploadVars, diffVars, classifyVars, runVars, letterVars, projectVars, sampleVars, heapVars, compVars, libvalVars, finVars, sqlVars, escVars, psulVars>>

NextTop == GetTopLevel

SpecTop == InitTop /\ [][NextTop]_vars

InitRun ==
    /\ IdleMerge
    /\ IdleUpload
    /\ IdleDiff
    /\ IdleClassify
    /\ IdleTop
    /\ IdleLetter
    /\ IdleProject
    /\ IdleSample
    /\ IdleHeap
    /\ IdleComp
    /\ IdleLibVal
    /\ IdleFin
    /\ IdleSQL
    /\ IdleEsc
    /\ IdlePSUL
    /\ r_in \in RunInputs
    /\ r_samp_db \in BOOLEAN
    /\ r_pc = "start"
    /\ r_called = FALSE
    /\ r_out = NoRunOut
    /\ r_sample_runs = {}

\* lines 427-461 for one sequencing run of a prep with a key
GetSampleRunMetrics ==
    /\ r_pc = "start"
    /\ r_pc' = "done"
    /\ LET udf == UdfOf(r_in.run_fields)
           prep == PrepOf(r_in.label)
       IN IF RunGuard(udf, prep)
          THEN LET out == make_sample_run_id(LocationOf(r_in.loc_fields), udf,
                                             prep, r_in.run_type)
               IN /\ r_called' = TRUE
                  /\ r_out' = out
                  /\ r_sample_runs' =
                        IF out.exc = "none" /\ Truthy(out.val) /\ r_samp_db
                        THEN {out.val} ELSE {}
          ELSE /\ r_called' = FALSE
               /\ UNCHANGED <<r_out, r_sample_runs>>
    /\ UNCHANGED <<r_in, r_samp_db, mergeVars, uploadVars, diffVars, classifyVars, topVars, letterVars, projectVars, sampleVars, heapVars, compVars, libvalVars, finVars, sqlVars, escVars, psulVars>>

NextRun == GetSampleRunMetrics

SpecRun == InitRun /\ [][NextRun]_vars

InitLetter ==
    /\ IdleMerge
    /\ IdleUpload
    /\ IdleDiff
    /\ IdleClassify
    /\ IdleTop
    /\ IdleRun
    /\ IdleProject
    /\ IdleSample
    /\ IdleHeap
    /\ IdleComp
    /\ IdleLibVal
    /\ IdleFin
    /\ IdleSQL
    /\ IdleEsc
    /\ IdlePSUL
    /\ \E n \in 0..MaxPreps :
         \E infos \in [1..n -> PrepInfos], order \in Perms(1..n) :
            l_prep_info = [i \in 1..n |-> [key |-> order[i], info |-> infos[i]]]
    /\ l_pc = "start"
    /\ l_out = NoLetters

\* self._get_prep_leter(preps)
GetPrepLeter ==
    /\ l_pc = "start"
    /\ l_out' = get_prep_leter(l_prep_info)
    /\ l_pc' = "done"
    /\ UNCHANGED <<l_prep_info, mergeVars, uploadVars, diffVars, classifyVars, topVars, runVars, projectVars, sampleVars, heapVars, compVars, libvalVars, finVars, sqlVars, escVars, psulVars>>

NextLetter == GetPrepLeter

SpecLetter == InitLetter /\ [][NextLetter]_vars

InitProject ==
    /\ IdleMerge
    /\ IdleUpload
    /\ IdleDiff
    /\ IdleClassify
    /\ IdleTop
    /\ IdleRun
    /\ IdleLetter
    /\ IdleSample
    /\ IdleHeap
    /\ IdleComp
    /\ IdleLibVal
    /\ IdleFin
    /\ IdleSQL
    /\ IdleEsc
    /\ IdlePSUL
    /\ p_project \in Projects
    /\ p_samples \in SeqsUpTo(SampleDocs, MaxSamples) \cup {<<>>}
    /\ p_pc = "info"
    /\ p_obj = EmptyDict

\* line 63
GetProjectLevelInfo ==
    /\ p_pc = "info"
    /\ p_obj' = projectLevelInfo(p_project)
    /\ p_pc' = "escalations"
    /\ UNCHANGED <<p_project, p_samples, mergeVars, uploadVars, diffVars, classifyVars, topVars, runVars, letterVars, sampleVars, heapVars, compVars, libvalVars, finVars, sqlVars, escVars, psulVars>>

\* line 64
GetOpenEscalations ==
    /\ p_pc = "escalations"
    /\ p_obj' = openEscalations(p_obj, p_project)
    /\ p_pc' = "samples"
    /\ UNCHANGED <<p_project, p_samples, mergeVars, uploadVars, diffVars, classifyVars, topVars, runVars, letterVars, sampleVars, heapVars, compVars, libvalVars, finVars, sqlVars, escVars, psulVars>>

\* line 65
MakeDBSamples ==
    /\ p_pc = "samples"
    /\ p_obj' = makeDBSamples(p_obj, p_samples)
    /\ p_pc' = "seqfin"
    /\ UNCHANGED <<p_project, p_samples, mergeVars, uploadVars, diffVars, classifyVars, topVars, runVars, letterVars, sampleVars, heapVars, compVars, libvalVars, finVars, sqlVars, escVars, psulVars>>

\* line 66
GetSequencingFinished ==
    /\ p_pc = "seqfin"
    /\ p_obj' = sequencingFinished(p_obj, p_project)
    /\ p_pc' = "done"
    /\ UNCHANGED <<p_project, p_samples, mergeVars, uploadVars, diffVars, classifyVars, topVars, runVars, letterVars, sampleVars, heapVars, compVars, libvalVars, finVars, sqlVars, escVars, psulVars>>

NextProject ==
    \/ GetProjectLevelInfo
    \/ GetOpenEscalations
    \/ MakeDBSamples
    \/ GetSequencingFinished

SpecProject == InitProject /\ [][NextProject]_vars

InitSample ==
    /\ IdleMerge
    /\ IdleUpload
    /\ IdleDiff
    /\ IdleClassify
    /\ IdleTop
    /\ IdleRun
    /\ IdleLetter
    /\ IdleProject
    /\ IdleHeap
    /\ IdleComp
    /\ IdleLibVal
    /\ IdleFin
    /\ IdleSQL
    /\ IdleEsc
    /\ IdlePSUL
    /\ s_in \in SampleInputs
    /\ s_pc = "preps"
    /\ s_preps = <<>>
    /\ s_obj = NoLetters

\* line 338-339: preps = self._get_preps_and_libval(); if preps:
GetPrepsAndLibval ==
    /\ s_pc = "preps"
    /\ s_preps' = get_preps_and_libval(s_in)
    /\ s_pc' = IF s_preps' # <<>> THEN "runs" ELSE "done"
    /\ UNCHANGED <<s_in, s_obj, mergeVars, uploadVars, diffVars, classifyVars, topVars, runVars, letterVars, projectVars, heapVars, compVars, libvalVars, finVars, sqlVars, escVars, psulVars>>

\* line 340-343: the runs are computed and hung on their preps
GetRuns ==
    /\ s_pc = "runs"
    /\ LET runs == get_sample_run_metrics(s_in, s_preps)
       IN IF runs.raised
          THEN /\ s_pc' = "raised"
               /\ UNCHANGED s_preps
          ELSE /\ s_pc' = "letters"
               /\ s_preps' = attachRuns(s_preps, runs.runs)
    /\ UNCHANGED <<s_in, s_obj, mergeVars, uploadVars, diffVars, classifyVars, topVars, runVars, letterVars, projectVars, heapVars, compVars, libvalVars, finVars, sqlVars, escVars, psulVars>>

\* line 344: self.obj['library_prep'] = self._get_prep_leter(preps)
SetLibraryPrep ==
    /\ s_pc = "letters"
    /\ s_obj' = get_prep_leter(s_preps)
    /\ s_pc' = IF s_obj'.raised THEN "raised" ELSE "done"
    /\ UNCHANGED <<s_in, s_preps, mergeVars, uploadVars, diffVars, classifyVars, topVars, runVars, letterVars, projectVars, heapVars, compVars, libvalVars, finVars, sqlVars, escVars, psulVars>>

NextSample ==
    \/ GetPrepsAndLibval
    \/ GetRuns
    \/ SetLibraryPrep

SpecSample == InitSample /\ [][NextSample]_vars

InitHeap ==
    /\ IdleMerge
    /\ IdleUpload
    /\ IdleDiff
    /\ IdleClassify
    /\ IdleTop
    /\ IdleRun
    /\ IdleLetter
    /\ IdleProject
    /\ IdleSample
    /\ IdleComp
    /\ IdleLibVal
    /\ IdleFin
    /\ IdleSQL
    /\ IdleEsc
    /\ IdlePSUL
    /\ \E docs \in [HeapRoots -> HeapDocs] : h_heap = HeapOf(docs)
    /\ h_init = h_heap
    /\ h_merges = 0

\* merge(d1, d2) with one of the incoming documents as d2
HeapMergeCall ==
    /\ h_merges < MaxMerges
    /\ \E a2 \in HeapIncoming : h_heap' = heapMerge(h_heap, 1, a2)
    /\ h_merges' = h_merges + 1
    /\ UNCHANGED <<h_init, mergeVars, uploadVars, diffVars, classifyVars, topVars, runVars, letterVars, projectVars, sampleVars, compVars, libvalVars, finVars, sqlVars, escVars, psulVars>>

NextHeap == HeapMergeCall

SpecHeap == InitHeap /\ [][NextHeap]_vars

InitComp ==
    /\ IdleMerge
    /\ IdleUpload
    /\ IdleDiff
    /\ IdleClassify
    /\ IdleTop
    /\ IdleRun
    /\ IdleLetter
    /\ IdleProject
    /\ IdleSample
    /\ IdleHeap
    /\ IdleLibVal
    /\ IdleFin
    /\ IdleSQL
    /\ IdleEsc
    /\ IdlePSUL
    /\ v_stage \in CompDocs
    /\ v_prod \in CompDocs
    /\ v_order \in {<<"a", "b">>, <<"b", "a">>}
    /\ v_pc = "start"
    /\ v_out = NoComp

\* diff = recursive_comp(stage, prod)
RecursiveComp ==
    /\ v_pc = "start"
    /\ v_out' = recursive_comp(v_stage, v_prod, v_order)
    /\ v_pc' = "done"
    /\ UNCHANGED <<v_stage, v_prod, v_order, mergeVars, uploadVars, diffVars, classifyVars, topVars, runVars, letterVars, projectVars, sampleVars, heapVars, libvalVars, finVars, sqlVars, escVars, psulVars>>

NextComp == RecursiveComp

SpecComp == InitComp /\ [][NextComp]_vars

\* Prep.__init__, lines 786-811, for a classified history
InitLibVal ==
    /\ IdleDiff
    /\ IdleUpload
    /\ IdleClassify
    /\ IdleTop
    /\ IdleRun
    /\ IdleLetter
    /\ IdleProject
    /\ IdleSample
    /\ IdleHeap
    /\ IdleComp
    /\ IdleMerge
    /\ IdleFin
    /\ IdleSQL
    /\ IdleEsc
    /\ IdlePSUL
    /\ lv_steps \in LibValHistories
    /\ lv_templ = lib_val_templ
    /\ lv_lib = EmptyDict
    /\ lv_pre = EmptyDict
    /\ lv_pc = "lib"

\* lines 859-861: if steps.libvalend: self.library_validations = ...
SetLibraryValidations ==
    /\ lv_pc = "lib"
    /\ IF lv_steps.libvalends # <<>>
       THEN LET out == lib_val_info(lv_templ, lv_steps.libvalends, lv_steps.libvalstart,
                                    lv_steps.latestCaliper)
            IN IF out.raised
               THEN /\ lv_pc' = "raised"
                    /\ UNCHANGED <<lv_templ, lv_lib>>
               ELSE /\ lv_pc' = "pre"
                    /\ lv_templ' = out.templ
                    /\ lv_lib' = out.vals
       ELSE /\ lv_pc' = "pre"
            /\ UNCHANGED <<lv_templ, lv_lib>>
    /\ UNCHANGED <<lv_steps, lv_pre, mergeVars, uploadVars, diffVars, classifyVars, topVars, runVars, letterVars, projectVars, sampleVars, heapVars, compVars, finVars, sqlVars, escVars, psulVars>>

\* lines 862-864: if steps.prepreplibvalend: ...; latest_caliper_id is None
SetPrePrepValidations ==
    /\ lv_pc = "pre"
    /\ IF lv_steps.prepreplibvalends # <<>>
       THEN LET out == lib_val_info(lv_templ, lv_steps.prepreplibvalends,
                                    lv_steps.prepreplibvalstart, NoProc)
            IN /\ lv_templ' = out.templ
               /\ lv_pre' = out.vals
       ELSE UNCHANGED <<lv_templ, lv_pre>>
    /\ lv_pc' = "done"
    /\ UNCHANGED <<lv_steps, lv_lib, mergeVars, uploadVars, diffVars, classifyVars, topVars, runVars, letterVars, projectVars, sampleVars, heapVars, compVars, finVars, sqlVars, escVars, psulVars>>

NextLibVal == SetLibraryValidations \/ SetPrePrepValidations

SpecLibVal == InitLibVal /\ [][NextLibVal]_vars

InitFin ==
    /\ IdleLibVal
    /\ IdleDiff
    /\ IdleUpload
    /\ IdleClassify
    /\ IdleTop
    /\ IdleRun
    /\ IdleLetter
    /\ IdleProject
    /\ IdleSample
    /\ IdleHeap
    /\ IdleComp
    /\ IdleMerge
    /\ IdleSQL
    /\ IdleEsc
    /\ IdlePSUL
    /\ f_in \in FinInputs
    /\ f_preps = <<>>
    /\ f_obj = NoLetters
    /\ f_pc = "preps"

\* line 338-339: preps = self._get_preps_and_libval(); if preps:
GetPrepsOfHistories ==
    /\ f_pc = "preps"
    /\ f_preps' = preps_and_libval(f_in)
    /\ f_pc' = IF f_preps' # <<>> THEN "letters" ELSE "done"
    /\ UNCHANGED <<f_in, f_obj, mergeVars, uploadVars, diffVars, classifyVars, topVars, runVars, letterVars, projectVars, sampleVars, heapVars, compVars, libvalVars, sqlVars, escVars, psulVars>>

\* line 344: self.obj['library_prep'] = self._get_prep_leter(preps)
SetPrepLetters ==
    /\ f_pc = "letters"
    /\ f_obj' = get_prep_leter(f_preps)
    /\ f_pc' = IF f_obj'.raised THEN "raised" ELSE "done"
    /\ UNCHANGED <<f_in, f_preps, mergeVars, uploadVars, diffVars, classifyVars, topVars, runVars, letterVars, projectVars, sampleVars, heapVars, compVars, libvalVars, sqlVars, escVars, psulVars>>

NextFin == GetPrepsOfHistories \/ SetPrepLetters

SpecFin == InitFin /\ [][NextFin]_vars

\* masterProcessSQL(args, wslist, logger) is called
InitSQL ==
    /\ IdleFin
    /\ IdleLibVal
    /\ IdleDiff
    /\ IdleUpload
    /\ IdleClassify
    /\ IdleTop
    /\ IdleRun
    /\ IdleLetter
    /\ IdleProject
    /\ IdleSample
    /\ IdleHeap
    /\ IdleComp
    /\ IdleMerge
    /\ IdleEsc
    /\ IdlePSUL
    /\ q_procs \in 0..MaxProcs
    /\ q_wslist \in {[i \in 1..n |-> i] : n \in 0..MaxWs}
    /\ q_mpc = "spawn"
    /\ q_put = 0
    /\ q_queue = <<>>
    /\ q_wpc = <<>>
    /\ q_ws_id = <<>>
    /\ q_posted = {}
    /\ q_logq = 0
    /\ q_handled = 0

\* lines 23-27: the workers are started
SpawnWorkers ==
    /\ q_mpc = "spawn"
    /\ q_wpc' = [w \in 1..procsNb(q_wslist, q_procs) |-> "get"]
    /\ q_ws_id' = [w \in 1..procsNb(q_wslist, q_procs) |-> 0]
    /\ q_mpc' = "put"
    /\ UNCHANGED <<q_procs, q_wslist, q_put, q_queue, q_posted, q_logq, q_handled, mergeVars, uploadVars, diffVars, classifyVars, topVars, runVars, letterVars, projectVars, sampleVars, heapVars, compVars, libvalVars, finVars, escVars, psulVars>>

\* lines 29-30: one worksetQueue.put(ws.processid), or the loop is over
PutWorkset ==
    /\ q_mpc = "put"
    /\ IF q_put < Len(q_wslist)
       THEN /\ q_queue' = Append(q_queue, q_wslist[q_put + 1])
            /\ q_put' = q_put + 1
            /\ UNCHANGED q_mpc
       ELSE /\ q_mpc' = "wait"
            /\ UNCHANGED <<q_queue, q_put>>
    /\ UNCHANGED <<q_procs, q_wslist, q_wpc, q_ws_id, q_posted, q_logq, q_handled, mergeVars, uploadVars, diffVars, classifyVars, topVars, runVars, letterVars, projectVars, sampleVars, heapVars, compVars, libvalVars, finVars, escVars, psulVars>>

\* lines 35-38: logQueue.get(False); a record is handled, or Queue.Empty
HandleLog ==
    /\ q_mpc = "wait"
    /\ IF q_logq > 0
       THEN /\ q_logq' = q_logq - 1
            /\ q_handled' = q_handled + 1
            /\ UNCHANGED q_mpc
       ELSE /\ q_mpc' = "alive"
            /\ UNCHANGED <<q_logq, q_handled>>
    /\ UNCHANGED <<q_procs, q_wslist, q_put, q_queue, q_wpc, q_ws_id, q_posted, mergeVars, uploadVars, diffVars, classifyVars, topVars, runVars, letterVars, projectVars, sampleVars, heapVars, compVars, libvalVars, finVars, escVars, psulVars>>

\* lines 39-41: if not stillRunning(childs): break
CheckAlive ==
    /\ q_mpc = "alive"
    /\ q_mpc' = IF stillRunning(q_wpc) THEN "wait" ELSE "returned"
    /\ UNCHANGED <<q_procs, q_wslist, q_put, q_queue, q_wpc, q_ws_id, q_posted, q_logq, q_handled, mergeVars, uploadVars, diffVars, classifyVars, topVars, runVars, letterVars, projectVars, sampleVars, heapVars, compVars, libvalVars, finVars, escVars, psulVars>>

\* lines 61-62: queue.get returns an id and "Starting work on" is logged
WorkerGet ==
    \E w \in DOMAIN q_wpc :
        /\ q_wpc[w] = "get"
        /\ q_queue # <<>>
        /\ q_ws_id' = [q_ws_id EXCEPT ![w] = Head(q_queue)]
        /\ q_queue' = Tail(q_queue)
        /\ q_wpc' = [q_wpc EXCEPT ![w] = "work"]
        /\ q_logq' = q_logq + 1
        /\ UNCHANGED <<q_procs, q_wslist, q_mpc, q_put, q_posted, q_handled, mergeVars, uploadVars, diffVars, classifyVars, topVars, runVars, letterVars, projectVars, sampleVars, heapVars, compVars, libvalVars, finVars, escVars, psulVars>>

\* lines 63-64: the three seconds are over on an empty queue
WorkerTimeout ==
    \E w \in DOMAIN q_wpc :
        /\ q_wpc[w] = "get"
        /\ q_queue = <<>>
        /\ q_wpc' = [q_wpc EXCEPT ![w] = "empty"]
        /\ UNCHANGED <<q_procs, q_wslist, q_mpc, q_put, q_queue, q_ws_id, q_posted, q_logq, q_handled, mergeVars, uploadVars, diffVars, classifyVars, topVars, runVars, letterVars, projectVars, sampleVars, heapVars, compVars, libvalVars, finVars, escVars, psulVars>>

\* line 65: proclog.info("exiting gracefully")
WorkerLogExit ==
    \E w \in DOMAIN q_wpc :
        /\ q_wpc[w] = "empty"
        /\ q_logq' = q_logq + 1
        /\ q_wpc' = [q_wpc EXCEPT ![w] = "logged"]
        /\ UNCHANGED <<q_procs, q_wslist, q_mpc, q_put, q_queue, q_ws_id, q_posted, q_handled, mergeVars, uploadVars, diffVars, classifyVars, topVars, runVars, letterVars, projectVars, sampleVars, heapVars, compVars, libvalVars, finVars, escVars, psulVars>>

\* line 66: break; the process ends
WorkerExit ==
    \E w \in DOMAIN q_wpc :
        /\ q_wpc[w] = "logged"
        /\ q_wpc' = [q_wpc EXCEPT ![w] = "exited"]
        /\ UNCHANGED <<q_procs, q_wslist, q_mpc, q_put, q_queue, q_ws_id, q_posted, q_logq, q_handled, mergeVars, uploadVars, diffVars, classifyVars, topVars, runVars, letterVars, projectVars, sampleVars, heapVars, compVars, libvalVars, finVars, escVars, psulVars>>

\* lines 68-103: the document is posted, "updating" is logged, task_done
WorkerPost ==
    \E w \in DOMAIN q_wpc :
        /\ q_wpc[w] = "work"
        /\ q_posted' = q_posted \cup {q_ws_id[w]}
        /\ q_logq' = q_logq + 1
        /\ q_ws_id' = [q_ws_id EXCEPT ![w] = 0]
        /\ q_wpc' = [q_wpc EXCEPT ![w] = "get"]
        /\ UNCHANGED <<q_procs, q_wslist, q_mpc, q_put, q_queue, q_handled, mergeVars, uploadVars, diffVars, classifyVars, topVars, runVars, letterVars, projectVars, sampleVars, heapVars, compVars, libvalVars, finVars, escVars, psulVars>>

NextSQL ==
    \/ SpawnWorkers
    \/ PutWorkset
    \/ HandleLog
    \/ CheckAlive
    \/ WorkerGet
    \/ WorkerTimeout
    \/ WorkerLogExit
    \/ WorkerExit
    \/ WorkerPost

SpecSQL == InitSQL /\ [][NextSQL]_vars

\* lines 126-137: the query has run; projects = {}
InitEsc ==
    /\ IdleSQL
    /\ IdleFin
    /\ IdleLibVal
    /\ IdleDiff
    /\ IdleUpload
    /\ IdleClassify
    /\ IdleTop
    /\ IdleRun
    /\ IdleLetter
    /\ IdleProject
    /\ IdleSample
    /\ IdleHeap
    /\ IdleComp
    /\ IdleMerge
    /\ IdlePSUL
    /\ e_rows \in EscRows
    /\ e_i = 0
    /\ e_projects = <<>>
    /\ e_notes = {}
    /\ e_pc = "group"

\* lines 138-168: one row of the query is grouped, or the loop is over
GroupEscalation ==
    /\ e_pc = "group"
    /\ IF e_i < Len(e_rows)
       THEN /\ e_projects' = groupRow(e_projects, e_rows[e_i + 1])
            /\ e_i' = e_i + 1
            /\ UNCHANGED e_pc
       ELSE /\ e_pc' = "notes"
            /\ UNCHANGED <<e_projects, e_i>>
    /\ UNCHANGED <<e_rows, e_notes, mergeVars, uploadVars, diffVars, classifyVars, topVars, runVars, letterVars, projectVars, sampleVars, heapVars, compVars, libvalVars, finVars, sqlVars, psulVars>>

\* lines 169-200: the notes of the grouping are made and saved
MakeNotes ==
    /\ e_pc = "notes"
    /\ e_notes' = escNotes(e_projects)
    /\ e_pc' = "done"
    /\ UNCHANGED <<e_rows, e_i, e_projects, mergeVars, uploadVars, diffVars, classifyVars, topVars, runVars, letterVars, projectVars, sampleVars, heapVars, compVars, libvalVars, finVars, sqlVars, psulVars>>

NextEsc == GroupEscalation \/ MakeNotes

SpecEsc == InitEsc /\ [][NextEsc]_vars

\* lines 100-118 and 175-181: the workers are started, the queues populated
InitPSUL ==
    /\ IdleEsc
    /\ IdleSQL
    /\ IdleFin
    /\ IdleLibVal
    /\ IdleDiff
    /\ IdleUpload
    /\ IdleClassify
    /\ IdleTop
    /\ IdleRun
    /\ IdleLetter
    /\ IdleProject
    /\ IdleSample
    /\ IdleHeap
    /\ IdleComp
    /\ IdleMerge
    /\ p_qsizeOk \in BOOLEAN
    /\ p_run \in [1..MaxWorkers -> 1..MaxRuns]
    /\ p_queue \in [1..MaxRuns -> ProjectLists]
    /\ p_locks = {}
    /\ p_wpc = [w \in 1..MaxWorkers |-> "get"]
    /\ p_proj = [w \in 1..MaxWorkers |-> 0]
    /\ p_created = [w \in 1..MaxWorkers |-> FALSE]
    /\ p_taken = [w \in 1..MaxWorkers |-> <<>>]
    /\ p_outcome = [w \in 1..MaxWorkers |-> <<>>]
    /\ p_done = [w \in 1..MaxWorkers |-> 0]

\* lines 122-123: queue.get returns a project name
QueueGet ==
    \E w \in DOMAIN p_wpc :
        /\ p_wpc[w] = "get"
        /\ p_queue[p_run[w]] # <<>>
        /\ p_proj' = [p_proj EXCEPT ![w] = Head(p_queue[p_run[w]])]
        /\ p_queue' = [p_queue EXCEPT ![p_run[w]] = Tail(@)]
        /\ p_taken' = [p_taken EXCEPT ![w] = Append(@, Head(p_queue[p_run[w]]))]
        /\ p_wpc' = [p_wpc EXCEPT ![w] = "qsize"]
        /\ UNCHANGED <<p_qsizeOk, p_run, p_locks, p_created, p_outcome, p_done, mergeVars, uploadVars, diffVars, classifyVars, topVars, runVars, letterVars, projectVars, sampleVars, heapVars, compVars, libvalVars, finVars, sqlVars, escVars>>

\* lines 125-128: queue.get times out, the worker leaves the loop
QueueEmpty ==
    \E w \in DOMAIN p_wpc :
        /\ p_wpc[w] = "get"
        /\ p_queue[p_run[w]] = <<>>
        /\ p_wpc' = [p_wpc EXCEPT ![w] = "exit"]
        /\ UNCHANGED <<p_qsizeOk, p_run, p_queue, p_locks, p_proj, p_created, p_taken, p_outcome, p_done, mergeVars, uploadVars, diffVars, classifyVars, topVars, runVars, letterVars, projectVars, sampleVars, heapVars, compVars, libvalVars, finVars, sqlVars, escVars>>

\* line 124: queue.qsize() answers; the else block of line 132 is entered
QsizeLogged ==
    \E w \in DOMAIN p_wpc :
        /\ p_wpc[w] = "qsize"
        /\ p_qsizeOk
        /\ p_wpc' = [p_wpc EXCEPT ![w] = "check"]
        /\ UNCHANGED <<p_qsizeOk, p_run, p_queue, p_locks, p_proj, p_created, p_taken, p_outcome, p_done, mergeVars, uploadVars, diffVars, classifyVars, topVars, runVars, letterVars, projectVars, sampleVars, heapVars, compVars, libvalVars, finVars, sqlVars, escVars>>

\* lines 124, 129-131: queue.qsize() raises NotImplementedError, which is
\* passed; the else block does not run and the loop starts over
QsizeNotImplemented ==
    \E w \in DOMAIN p_wpc :
        /\ p_wpc[w] = "qsize"
        /\ ~p_qsizeOk
        /\ p_wpc' = [p_wpc EXCEPT ![w] = "get"]
        /\ p_proj' = [p_proj EXCEPT ![w] = 0]
        /\ UNCHANGED <<p_qsizeOk, p_run, p_queue, p_locks, p_created, p_taken, p_outcome, p_done, mergeVars, uploadVars, diffVars, classifyVars, topVars, runVars, letterVars, projectVars, sampleVars, heapVars, compVars, libvalVars, finVars, sqlVars, escVars>>

\* lines 134-136: os.path.exists(lockfile) is False
LockFree ==
    \E w \in DOMAIN p_wpc :
        /\ p_wpc[w] = "check"
        /\ ~lockfileExists(p_locks, p_proj[w])
        /\ p_wpc' = [p_wpc EXCEPT ![w] = "create"]
        /\ UNCHANGED <<p_qsizeOk, p_run, p_queue, p_locks, p_proj, p_created, p_taken, p_outcome, p_done, mergeVars, uploadVars, diffVars, classifyVars, topVars, runVars, letterVars, projectVars, sampleVars, heapVars, compVars, libvalVars, finVars, sqlVars, escVars>>

\* lines 136, 154-155: the lockfile exists, the project is logged as locked
LockFound ==
    \E w \in DOMAIN p_wpc :
        /\ p_wpc[w] = "check"
        /\ lockfileExists(p_locks, p_proj[w])
        /\ p_outcome' = [p_outcome EXCEPT ![w] = Append(@, "skipped")]
        /\ p_wpc' = [p_wpc EXCEPT ![w] = "taskdone"]
        /\ UNCHANGED <<p_qsizeOk, p_run, p_queue, p_locks, p_proj, p_created, p_taken, p_done, mergeVars, uploadVars, diffVars, classifyVars, topVars, runVars, letterVars, projectVars, sampleVars, heapVars, compVars, libvalVars, finVars, sqlVars, escVars>>

\* lines 137-140: open(lockfile, "w") succeeds, or raises and is logged;
\* the worker goes on to the build either way
CreateLock ==
    \E w \in DOMAIN p_wpc :
        /\ p_wpc[w] = "create"
        /\ \E opened \in BOOLEAN :
            /\ p_locks' = IF opened THEN p_locks \cup {p_proj[w]} ELSE p_locks
            /\ p_created' = [p_created EXCEPT ![w] = opened]
        /\ p_wpc' = [p_wpc EXCEPT ![w] = "build"]
        /\ UNCHANGED <<p_qsizeOk, p_run, p_queue, p_proj, p_taken, p_outcome, p_done, mergeVars, uploadVars, diffVars, classifyVars, topVars, runVars, letterVars, projectVars, sampleVars, heapVars, compVars, libvalVars, finVars, sqlVars, escVars>>

\* lines 141-148: ProjectSQL(...) and P.save() end, or raise and are logged
BuildSave ==
    \E w \in DOMAIN p_wpc :
        /\ p_wpc[w] = "build"
        /\ \E saved \in BOOLEAN :
            p_outcome' = [p_outcome EXCEPT ![w] = Append(@, IF saved THEN "saved" ELSE "raised")]
        /\ p_wpc' = [p_wpc EXCEPT ![w] = "remove"]
        /\ UNCHANGED <<p_qsizeOk, p_run, p_queue, p_locks, p_proj, p_created, p_taken, p_done, mergeVars, uploadVars, diffVars, classifyVars, topVars, runVars, letterVars, projectVars, sampleVars, heapVars, compVars, libvalVars, finVars, sqlVars, escVars>>

\* lines 150-153: os.remove(lockfile); a missing file is logged
RemoveLock ==
    \E w \in DOMAIN p_wpc :
        /\ p_wpc[w] = "remove"
        /\ p_locks' = p_locks \ {p_proj[w]}
        /\ p_wpc' = [p_wpc EXCEPT ![w] = "taskdone"]
        /\ UNCHANGED <<p_qsizeOk, p_run, p_queue, p_proj, p_created, p_taken, p_outcome, p_done, mergeVars, uploadVars, diffVars, classifyVars, topVars, runVars, letterVars, projectVars, sampleVars, heapVars, compVars, libvalVars, finVars, sqlVars, escVars>>

\* line 158: queue.task_done()
TaskDone ==
    \E w \in DOMAIN p_wpc :
        /\ p_wpc[w] = "taskdone"
        /\ p_done' = [p_done EXCEPT ![w] = @ + 1]
        /\ p_proj' = [p_proj EXCEPT ![w] = 0]
        /\ p_created' = [p_created EXCEPT ![w] = FALSE]
        /\ p_wpc' = [p_wpc EXCEPT ![w] = "get"]
        /\ UNCHANGED <<p_qsizeOk, p_run, p_queue, p_locks, p_taken, p_outcome, mergeVars, uploadVars, diffVars, classifyVars, topVars, runVars, letterVars, projectVars, sampleVars, heapVars, compVars, libvalVars, finVars, sqlVars, escVars>>

NextPSUL ==
    \/ QueueGet
    \/ QueueEmpty
    \/ QsizeLogged
    \/ QsizeNotImplemented
    \/ LockFree
    \/ LockFound
    \/ CreateLock
    \/ BuildSave
    \/ RemoveLock
    \/ TaskDone

SpecPSUL == InitPSUL /\ [][NextPSUL]_vars

(***************************************************************************)
(* Claims on utils.merge                                                   *)
(***************************************************************************)
\* C1: after merge(a, b) every key of a, at every depth, is still present and
\* every key that held a leaf in a still holds exactly that leaf, whatever b
\* holds under the same key.
C1_MergeKeepsKeysAndLeaves ==
    m_pc \in {"merged", "merged2"} =>
        /\ KeyPaths(m_prev) \subseteq KeyPaths(m_d1)
        /\ LeafEntries(m_prev) \subseteq LeafEntries(m_d1)
        /\ KeyPaths(m_a) \subseteq KeyPaths(m_d1)
        /\ LeafEntries(m_a) \subseteq LeafEntries(m_d1)

\* a merge where b holds another leaf under a nested leaf key of a, and a
\* mapping under a top-level leaf key of a
C1_Witness ==
    /\ m_pc = "merged"
    /\ \E e \in LeafEntries(m_a), f \in LeafEntries(m_d2) :
         Len(e[1]) = 2 /\ f[1] = e[1] /\ f[2] # e[2]
    /\ \E e \in LeafEntries(m_a), f \in Entries(m_d2, <<>>) :
         f[1] = e[1] /\ IsDict(f[2]) /\ f[2] # EmptyDict

\* C3: merging b a second time into merge(a, b) leaves it unchanged.
C3_MergeIdempotent == m_pc = "merged2" => m_d1 = m_prev

\* a second merge after a first one that added a nested mapping and nested keys
C3_Witness ==
    /\ m_pc = "merged2"
    /\ m_prev # m_a
    /\ \E e \in Entries(m_d2, <<>>) :
         Len(e[1]) = 1 /\ IsDict(e[2]) /\ e[2] # EmptyDict /\ e[1] \notin KeyPaths(m_a)
    /\ \E e \in LeafEntries(m_d2) : Len(e[1]) = 2 /\ e[1] \notin KeyPaths(m_a)
                                      /\ <<e[1][1]>> \in KeyPaths(m_a)

(***************************************************************************)
(* Claims on the workset upload                                            *)
(***************************************************************************)
Uploaded == u_last.path # "none" /\ u_last.persisted # EmptyDict

Swap(diffs) == {<<e[1], <<e[2][2], e[2][1]>>>> : e \in diffs}

\* C7 as stated: diff_objects(a, b) and diff_objects(b, a) report the same
\* paths, each with the reversed pair, including when a key holds a mapping
\* in one document and a non-mapping in the other.
C7_DiffSymmetric ==
    d_called = {"fwd", "bwd"} =>
        /\ ~d_fwd.raised
        /\ ~d_bwd.raised
        /\ d_bwd.diffs = Swap(d_fwd.diffs)

\* C8 as stated: diff_objects returns a report and never raises.
C8_DiffNeverRaises ==
    /\ "fwd" \in d_called => ~d_fwd.raised
    /\ "bwd" \in d_called => ~d_bwd.raised

\* the entries C15 lists for two mappings a and b below the path parent
RECURSIVE ListedDiffs(_, _, _)
ListedDiffs(a, b, parent) ==
    LET both == DOMAIN a.d \cap DOMAIN b.d
    IN {<<Path("", parent, key), <<a.d[key], b.d[key]>>>> :
            key \in {k \in both : ~IsDict(a.d[k]) /\ ~IsDict(b.d[k]) /\ a.d[k] # b.d[k]}}
       \cup {<<Path("key", parent, key), <<a.d[key], Missing>>>> :
            key \in {k \in DOMAIN a.d \ DOMAIN b.d : Truthy(a.d[k])}}
       \cup {<<Path("key", parent, key), <<Missing, b.d[key]>>>> :
            key \in {k \in DOMAIN b.d \ DOMAIN a.d : Truthy(b.d[k])}}
       \cup UNION {ListedDiffs(a.d[key], b.d[key], Append(parent, key)) :
            key \in {k \in both : IsDict(a.d[k]) /\ IsDict(b.d[k])}}

\* C15 as stated: diff_objects(o1, o2) reports exactly the unequal
\* non-mapping values of shared keys, the truthy values of one-sided keys
\* against "missing", and what the mappings both hold report in turn.
C15_DiffCases ==
    "fwd" \in d_called =>
        /\ ~d_fwd.raised
        /\ d_fwd.diffs = ListedDiffs(d_o1, d_o2, <<>>)

(***************************************************************************)
(* Claims on objectsDB.ProcessSpec                                         *)
(***************************************************************************)
\* C4 as stated: constructing ProcessSpec twice in succession from the same
\* history map, artifact-id list and finished-library flag yields identical
\* category lists and identical representatives.
C4_ClassifyIdempotent ==
    (c_pc = "done" /\ c_first.built) =>
        /\ c_steps = c_first.steps
        /\ c_reps = c_first.reps

(***************************************************************************)
(* Claims on _get_top_level_agrlibval_steps                                *)
(***************************************************************************)
AncSet(a) == SetOf(Ancestry(t_AgrLibQCs[a]))
Holding == {a \in DOMAIN t_AgrLibQCs : t_AgrLibQCs[a].has}
ProperSubset(S, T) == S \subseteq T /\ S # T

ValidationGrown(st) == st.libvals # <<>> \/ st.libvalends # <<>>

PrePrepValidationGrown(st) == st.prepreplibvals # <<>> \/ st.prepreplibvalends # <<>>

\* C17 as stated: after the walk of any history, the validation lists
\* (libvals, libvalends) and the pre-prep-validation lists (prepreplibvals,
\* prepreplibvalends) are not both non-empty.
C17_AtMostOneFamily ==
    c_pc = "done" => ~(ValidationGrown(c_steps) /\ PrePrepValidationGrown(c_steps))

\* C17 as the code has it: the branch is chosen anew at every step of the
\* walk.  A step adds to the pre-prep-validation lists only while a pre-prep
\* start has been seen and no prep end was seen before the step; it adds to
\* the validation lists only otherwise, and then only for a finished library
\* or after a prep end.  No step adds to both families.
C17_OneBranchPerStep ==
    [][c_i' = c_i + 1 =>
        LET inPrePrep == c_steps'.preprepstarts # <<>> /\ c_steps.prepends = <<>>
            grewPre == \/ c_steps'.prepreplibvals # c_steps.prepreplibvals
                       \/ c_steps'.prepreplibvalends # c_steps.prepreplibvalends
            grewVal == \/ c_steps'.libvals # c_steps.libvals
                       \/ c_steps'.libvalends # c_steps.libvalends
        IN /\ grewPre => inPrePrep
           /\ grewVal => ~inPrePrep /\ (c_isFinLib \/ c_steps.prepends # <<>>)]_vars

\* a walk is over in which the branch changed on the way (a pre-prep start
\* met after a validation of a finished library, or a prep end met after a
\* pre-prep validation): both families are non-empty
C17_Witness ==
    /\ c_pc = "done"
    /\ ValidationGrown(c_steps)
    /\ PrePrepValidationGrown(c_steps)

\* the artifacts walked so far, in walk order, and the processes of category
\* cat with an output artifact on the first of them that has any
Walked == [a \in 1..c_i |-> c_hist_sort[c_hist_list[a]]]

FirstWith(cat) ==
    LET has == {a \in 1..c_i : OfTypeWithOut(Walked[a], cat) # <<>>}
    IN IF has = {} THEN <<>>
       ELSE OfTypeWithOut(Walked[CHOOSE a \in has : \A b \in has : a <= b], cat)

IsPrefix(l1, l2) == Len(l1) <= Len(l2) /\ SubSeq(l2, 1, Len(l1)) = l1

AppendOnly ==
    {"initialqcends", "initialqcs", "preprepstarts", "prepreplibvals",
     "prepreplibvalends", "libvals", "libvalends", "prepstarts", "prepends",
     "worksets", "poolingsteps", "demproc", "seq", "caliper_procs"}

InList(pro, l) == \E i \in 1..Len(l) : l[i] = pro

\* C18: during the walk the sequencing-start list and the dilution-start
\* list hold exactly the matching processes with an output artifact of the
\* first walked artifact that has any, a later step never changes them once
\* they are non-empty, the resolved seqstart and dilstart come from that
\* artifact only, and every other category list only grows by appending.
C18_FirstSeenWins ==
    /\ [](c_pc \in {"walk", "done"} =>
            /\ c_steps.seqstarts = FirstWith(SEQSTART)
            /\ c_steps.dilstarts = FirstWith(DILSTART))
    /\ [](c_pc = "done" =>
            /\ IF FirstWith(SEQSTART) = <<>> THEN c_reps.seqstart = NoProc
               ELSE InList(c_reps.seqstart, FirstWith(SEQSTART))
            /\ IF FirstWith(DILSTART) = <<>> THEN c_reps.dilstart = NoProc
               ELSE InList(c_reps.dilstart, FirstWith(DILSTART)))
    /\ [][c_i' = c_i + 1 =>
            /\ c_steps.seqstarts # <<>> => c_steps'.seqstarts = c_steps.seqstarts
            /\ c_steps.dilstarts # <<>> => c_steps'.dilstarts = c_steps.dilstarts
            /\ \A f \in AppendOnly : IsPrefix(c_steps[f], c_steps'[f])]_vars

\* a walk is over in which two artifacts had a sequencing start with an
\* output artifact, the list holds one of them, and another list has grown
C18_Witness ==
    /\ c_pc = "done"
    /\ Cardinality({a \in 1..c_i : OfTypeWithOut(Walked[a], SEQSTART) # <<>>}) >= 2
    /\ Len(c_steps.seqstarts) = 1
    /\ \E f \in AppendOnly : c_steps[f] # <<>>

\* C5 as stated: the call returns exactly the anchors holding the sample
\* whose ancestry set is not a proper subset of another anchor's.
C5_TopLevelExact ==
    t_pc = "done" =>
        /\ ~t_out.raised
        /\ t_out.result =
              {a \in Holding : ~\E b \in Holding : b # a /\ ProperSubset(AncSet(a), AncSet(b))}

C19_TopLevelNeverRaises ==
    (/\ t_pc = "done"
     /\ \E a, b \in Holding : a # b /\ AncSet(a) \subseteq AncSet(b)) =>
        /\ ~t_out.raised
        /\ t_out.result \subseteq Holding

(***************************************************************************)
(* Claims on _make_sample_run_id                                           *)
(***************************************************************************)
\* the fields the identifier is made of are all there: the location has the
\* field the lane is read from, the 'Run ID' has four fields, and the label
\* is a bare barcode or ends with the barcode in parentheses
AllFieldsPresent ==
    /\ Len(r_in.loc_fields) >= (IF r_in.run_type \in {"46", "MiSeq Run (MiSeq) 4.0"} THEN 2 ELSE 1)
    /\ Len(r_in.run_fields) >= 4
    /\ r_in.label.kind \in {"raw", "paren"}

ParseFailure == r_called /\ ~AllFieldsPresent

\* C9 as stated: the call never raises, and on a parse failure the identifier
\* is None and no run is recorded.
C9_RunIdNeverRaises ==
    r_pc = "done" =>
        /\ r_out.exc = "none"
        /\ ParseFailure => (r_out.val = NoneLeaf /\ r_sample_runs = {})

LetterOf(key) == CHOOSE letter \in DOMAIN l_out.new : l_out.new[letter].key = key

\* C11 as stated: n preps get exactly the first n letters, one prep per
\* letter and none lost, in ascending order of their dates whatever the
\* order of the mapping; a single prep is 'A', with or without dates.
C11_PrepLetters ==
    l_pc = "done" =>
        /\ ~l_out.raised
        /\ DOMAIN l_out.new = {Letters[i] : i \in DOMAIN l_prep_info}
        /\ \A i \in DOMAIN l_prep_info :
              \E letter \in DOMAIN l_out.new : l_out.new[letter].key = l_prep_info[i].key
        /\ \A i, j \in DOMAIN l_prep_info :
              (/\ Comparable(prepDate(l_prep_info[i].info), prepDate(l_prep_info[j].info))
               /\ prepDate(l_prep_info[i].info).v < prepDate(l_prep_info[j].info).v)
              => \E a, b \in DOMAIN Letters :
                    /\ a < b
                    /\ Letters[a] = LetterOf(l_prep_info[i].key)
                    /\ Letters[b] = LetterOf(l_prep_info[j].key)

(***************************************************************************)
(* Claims on ProjectDB                                                     *)
(***************************************************************************)
RECURSIVE HasNone(_)
HasNone(doc) ==
    \E key \in DOMAIN doc.d :
        \/ doc.d[key] = NoneLeaf
        \/ IsDict(doc.d[key]) /\ HasNone(doc.d[key])

\* C12 as stated: when the four steps of the construction have run, the
\* project document has no key whose value is None, at any level.
C12_NoNoneInProject == p_pc = "done" => ~HasNone(p_obj)

(***************************************************************************)
(* Claims on _get_sample_info and Prep.set_prep_info                       *)
(***************************************************************************)
\* the library_prep map of the finished sample: letter -> prep record
LibraryPrep == IF s_obj.raised THEN <<>> ELSE s_obj.new

HasDate(info, key) == key \in DOMAIN info.d /\ info.d[key] # NoneLeaf

\* the sample of the end-to-end case, when _get_sample_info is through with
\* it: no finished library, a prep start, a prep end, a sequencing step
\* with a 'Run ID' of four fields and a demultiplex step, one reagent label,
\* and a sample database to look the run up in
EndToEndSample ==
    /\ s_pc \in {"done", "raised"}
    /\ ~s_in.isFinLib /\ s_in.application = "RNA-seq"
    /\ {"PREPSTART", "PREPEND", "SEQUENCING", "DEMULTIPLEX"} \subseteq s_in.has
    /\ s_in.run_fields = <<<<"a">>, <<"b">>, <<"a">>, <<"b">>>>
    /\ s_in.labels = <<<<"N", " ", "(", "a", ")">>>>
    /\ s_in.samp_db

OnePrepOneRun ==
       /\ s_pc = "done"
       /\ DOMAIN LibraryPrep = {"A"}
       /\ HasDate(LibraryPrep["A"].info, "prep_start_date")
       /\ HasDate(LibraryPrep["A"].info, "prep_finished_date")
       /\ "sample_run_metrics" \in DOMAIN LibraryPrep["A"].info.d
       /\ DOMAIN LibraryPrep["A"].info.d["sample_run_metrics"].d
             = {<<"1", "_", "a", "_", "b", "_", "a">>}

\* C13 as stated: the sample of the end-to-end case ends with exactly one
\* prep record, with its start and finish dates, holding exactly one run,
\* keyed by the run id of the sequencing step.
C13_EndToEnd == EndToEndSample => OnePrepOneRun

\* C13, amended: so it is when the sample also went through an aggregate
\* library validation step after its prep end.
C13_EndToEndWithValidation ==
    (EndToEndSample /\ "AGRLIBVAL" \in s_in.has) => OnePrepOneRun

\* the sample of the case with its validation step and nothing else, done
C13_Witness ==
    /\ EndToEndSample
    /\ s_in.has = {"PREPSTART", "PREPEND", "AGRLIBVAL", "SEQUENCING", "DEMULTIPLEX"}
    /\ OnePrepOneRun
    /\ LibraryPrep["A"].key = IntLeaf(11)

FinishedPrep ==
    s_in.application \in {"Amplicon with adaptors", "Finished library"} \/ s_in.isFinLib

\* C20: for the history of an anchor, the identity key is 'Finished' for the
\* two applications or the flag, with no prep start date, finish date or
\* prep id; else it is the id of the pre-prep start if there is one, else
\* that of the prep start, else none, and then preps gets no record.
C20_IdentityKey ==
    (s_pc # "preps" /\ "AGRLIBVAL" \in s_in.has) =>
        IF FinishedPrep
        THEN /\ Len(s_preps) = 1
             /\ s_preps[1].key = Finished
             /\ \A key \in {"prep_start_date", "prep_finished_date", "prep_id"} :
                   ~HasDate(s_preps[1].info, key)
        ELSE IF "PREPREPSTART" \in s_in.has
        THEN /\ Len(s_preps) = 1
             /\ s_preps[1].key = IntLeaf(10 * ChainPos(s_in.has, "PREPREPSTART") + 1)
        ELSE IF "PREPSTART" \in s_in.has
        THEN /\ Len(s_preps) = 1
             /\ s_preps[1].key = IntLeaf(10 * ChainPos(s_in.has, "PREPSTART") + 1)
        ELSE s_preps = <<>>

\* a sample with a pre-prep start and a prep start, keyed by the former
C20_Witness ==
    /\ s_pc = "done"
    /\ ~FinishedPrep
    /\ {"PREPREPSTART", "PREPSTART", "PREPEND", "AGRLIBVAL"} \subseteq s_in.has
    /\ Len(s_preps) = 1
    /\ s_preps[1].key = IntLeaf(11)
    /\ HasDate(s_preps[1].info, "prep_start_date")

\* C30 as stated: for the classified history of a run of the sample, the
\* key the run is filed under is the identity key set_prep_info gives that
\* history, for every application and flag, and every run recorded is filed
\* under a key of the sample's preps.
C30_RunKeyIsPrepKey ==
    (/\ s_pc \in {"letters", "done"}
     /\ s_preps # <<>>
     /\ s_in.has \cap {"SEQUENCING", "DEMULTIPLEX"} # {}) =>
        /\ sampleRunKey(RunHistory(s_in).reps, s_in.isFinLib)
              = prepId2AB(RunHistory(s_in).reps, s_in.application, s_in.isFinLib)
        /\ \A run \in get_sample_run_metrics(s_in, s_preps).runs :
              \E i \in DOMAIN s_preps : s_preps[i].key = run.key

(***************************************************************************)
(* Claims on the side effects of utils.merge                               *)
(***************************************************************************)
\* C14 as stated: after any sequence of merge calls, a document that was only
\* ever passed as d2 is as it was, its nested mappings included.
C14_IncomingUnchanged ==
    \A a \in HeapIncoming : DeepValue(h_heap, a) = DeepValue(h_init, a)

(***************************************************************************)
(* Claims on recursive_comp                                                *)
(***************************************************************************)
\* C16 as stated: recursive_comp returns True when the two objects differ in
\* a value or a key at any depth, whatever the order of the keys, and False
\* only when they do not differ.
C16_CompDetects ==
    v_pc = "done" =>
        /\ ~v_out.raised
        /\ v_out.diff <=> (v_stage # v_prod)

(***************************************************************************)
(* Claims on Prep._get_lib_val_info                                        *)
(***************************************************************************)
\* the validation-end node of a record
EndNode(ends, id) == ends[CHOOSE i \in DOMAIN ends : ends[i].id = id]

CaliperAtOrAfter(start) ==
    /\ lv_steps.latestCaliper # NoProc
    /\ start # NoProc
    /\ lv_steps.latestCaliper.date >= start.date

\* C22 as stated: a record of the library_validation map carries a
\* caliper_image only if a caliper step exists that ran at or after the
\* validation start, and a record of the pre_prep_library_validation map,
\* for which the test is never made, carries none.
C22_CaliperGuard ==
    /\ \A id \in DOMAIN lv_lib.d :
          "caliper_image" \in DOMAIN lv_lib.d[id].d => CaliperAtOrAfter(lv_steps.libvalstart)
    /\ \A id \in DOMAIN lv_pre.d : "caliper_image" \notin DOMAIN lv_pre.d[id].d

\* C23 as stated: a record has initials or a concentration only if its own
\* validation-end node provides them, in both maps, and a pre-prep record
\* has nothing of the library-validation call.
C23_FreshRecords ==
    /\ \A id \in DOMAIN lv_lib.d :
          /\ "initials" \in DOMAIN lv_lib.d[id].d => EndNode(lv_steps.libvalends, id).initials
          /\ "concentration" \in DOMAIN lv_lib.d[id].d =>
                lv_lib.d[id].d["concentration"] = IntLeaf(id)
    /\ \A id \in DOMAIN lv_pre.d :
          /\ "initials" \in DOMAIN lv_pre.d[id].d =>
                EndNode(lv_steps.prepreplibvalends, id).initials
          /\ "concentration" \in DOMAIN lv_pre.d[id].d =>
                lv_pre.d[id].d["concentration"] = IntLeaf(id)
          /\ "caliper_image" \notin DOMAIN lv_pre.d[id].d

\* C24 as stated: with validation-end nodes and no validation-start node the
\* call does not raise, with or without a caliper step, and gives one record
\* per validation-end node, without start_date.
C24_NoStartNeverRaises ==
    (/\ lv_pc # "lib"
     /\ lv_steps.libvalends # <<>>
     /\ lv_steps.libvalstart = NoProc) =>
        /\ lv_pc # "raised"
        /\ DOMAIN lv_lib.d = {lv_steps.libvalends[i].id : i \in DOMAIN lv_steps.libvalends}
        /\ \A id \in DOMAIN lv_lib.d : "start_date" \notin DOMAIN lv_lib.d[id].d

(***************************************************************************)
(* Claims on _get_preps_and_libval for a finished library                  *)
(***************************************************************************)
\* the validation records the histories of the sample give
FoundValidations ==
    UNION {{[id |-> id, rec |-> PrepOfHistory(f_in, h).library_validations.d[id]] :
               id \in DOMAIN PrepOfHistory(f_in, h).library_validations.d} :
            h \in DOMAIN f_in.hists}

\* C21: for a finished-library sample, whatever its histories, preps has one
\* record, keyed 'Finished', whose library_validation map holds the
\* validation ids found in any history, each with a record a history gave
\* it, and the letters give the sample one prep, 'A'.
C21_FinishedCollapses ==
    (f_in.isFinLib /\ f_pc = "done") =>
        /\ Len(f_preps) = 1
        /\ f_preps[1].key = Finished
        /\ LET lv == f_preps[1].info.d["library_validation"]
           IN /\ DOMAIN lv.d = {v.id : v \in FoundValidations}
              /\ \A id \in DOMAIN lv.d : [id |-> id, rec |-> lv.d[id]] \in FoundValidations
        /\ ~f_obj.raised
        /\ DOMAIN f_obj.new = {"A"}
        /\ f_obj.new["A"].key = Finished

\* a finished-library sample with two histories that each found another
\* validation: one prep 'A' with both
C21_Witness ==
    /\ f_in.isFinLib /\ f_pc = "done"
    /\ Len(f_in.hists) = 2
    /\ DOMAIN PrepOfHistory(f_in, 1).library_validations.d = {31}
    /\ DOMAIN PrepOfHistory(f_in, 2).library_validations.d = {41}
    /\ DOMAIN f_obj.new = {"A"}
    /\ DOMAIN f_obj.new["A"].info.d["library_validation"].d = {31, 41}

(***************************************************************************)
(* Claims on masterProcessSQL                                              *)
(***************************************************************************)
\* C26 as stated: when masterProcessSQL has returned, the document of every
\* workset id of wslist has been posted.
C26_AllPostedAtReturn ==
    q_mpc = "returned" => q_posted = {q_wslist[i] : i \in DOMAIN q_wslist}

\* C27 as stated: when the master has left its wait loop, no record is left
\* in the log queue.
C27_NoRecordLeft == q_mpc = "returned" => q_logq = 0

(***************************************************************************)
(* Claims on escalation_running_notes.main                                 *)
(***************************************************************************)
\* the samples of an event in a project, in the order of the rows
SamplesOf(p, e) ==
    LET mine(row) == row.project = p /\ row.event = e
        rows == SelectSeq(e_rows, mine)
    IN [i \in DOMAIN rows |-> rows[i].sample]

\* C29 as stated: every event of the query result that concerns a sample
\* with a project has a running note in that project listing the samples
\* of the event.
C29_EveryEventNoted ==
    e_pc = "done" =>
        \A i \in DOMAIN e_rows :
            e_rows[i].project # 0 =>
                [project |-> e_rows[i].project, event |-> e_rows[i].event,
                 samples |-> SamplesOf(e_rows[i].project, e_rows[i].event)] \in e_notes

(***************************************************************************)
(* Claims on project_summary_upload_LIMS.processPSUL                       *)
(***************************************************************************)
\* C25 as stated: no two workers build and save the same project at the
\* same time, and a worker that builds created the lockfile.
C25_OneBuilderPerProject ==
    \A w \in DOMAIN p_wpc :
        p_wpc[w] = "build" =>
            /\ p_created[w]
            /\ \A v \in DOMAIN p_wpc \ {w} :
                ~(p_wpc[v] = "build" /\ p_proj[v] = p_proj[w])

\* C28 as stated: a worker back at queue.get, or out of the loop, has built
\* or skipped every project it took and has called task_done once for each.
C28_TaskDoneOncePerItem ==
    \A w \in DOMAIN p_wpc :
        /\ p_done[w] <= Len(p_taken[w])
        /\ p_wpc[w] \in {"get", "exit"} =>
            /\ Len(p_outcome[w]) = Len(p_taken[w])
            /\ p_done[w] = Len(p_taken[w])

====
